---------------------------- MODULE Spec2Model ----------------------------
(***************************************************************************)
(* Alert classification and unification engine of the AIND dashboard:      *)
(* AlertService (app_utils/app_alerts/alert_service.py) and                *)
(* AlertCoordinator (app_utils/app_alerts/alert_coordinator.py).           *)
(*                                                                         *)
(* Percentiles are kept in half-percent units so that the default          *)
(* boundaries 6.5 and 93.5 are integers (13 and 187); a percentile value   *)
(* is a normalised fraction n/d of half-percents, because the feature      *)
(* mean sum/len need not be a whole number.  Water volumes are kept in     *)
(* tenths of a millilitre (3.5 ml = 35).                                   *)
(***************************************************************************)
EXTENDS Integers, Sequences, FiniteSets, TLC

(***************************************************************************)
(* Bounds of the model.                                                    *)
(***************************************************************************)
NumSubjects == 2
MaxPct == 200
MaxRows == 2
MaxThreshold == 2
MaxDefects == 1
NumRequests == 2

(***************************************************************************)
(* Program constants.                                                      *)
(***************************************************************************)
DEFAULT_MIN_SESSIONS == 1
TOTAL_SESSIONS_THRESHOLD == 40
WATER_DAY_TOTAL_THRESHOLD == 35

Subjects == 1..NumSubjects

VARIABLES
    alert_service,    \* AlertCoordinator.alert_service: "None" or "AlertService"
    config,           \* AlertService.config
    quantile_alerts,  \* AlertService._quantile_alerts
    cache,            \* the cache manager (if any) and its "unified_alerts" slot
    app_utils,        \* the collaborators reached through app_utils
    df,               \* the dataset handed to the filter / aggregation operations
    percentile,       \* the value handed to the classifier entry points
    result            \* what the most recent operation did and returned

vars == <<alert_service, config, quantile_alerts, cache, app_utils, df,
          percentile, result>>

(***************************************************************************)
(* Percentile values: a number n/d (half-percents), None, or NaN.          *)
(***************************************************************************)
RECURSIVE Gcd(_, _)
Gcd(a, b) == IF b = 0 THEN a ELSE Gcd(b, a % b)

Frac(n, d) == LET g == Gcd(n, d) IN
    IF g = 0 THEN [k |-> "num", n |-> 0, d |-> 1]
    ELSE [k |-> "num", n |-> n \div g, d |-> d \div g]
Num(n) == [k |-> "num", n |-> n, d |-> 1]
PNone == [k |-> "None", n |-> 0, d |-> 1]
PNaN == [k |-> "NaN", n |-> 0, d |-> 1]

\* `x is None or np.isnan(x)`, pd.isna(x)
IsMissing(p) == p.k # "num"
\* p < t for a boundary t given in half-percents
Less(p, t) == p.n < t * p.d

CategoryKeys == {"SB", "B", "N", "G", "SG"}
CategoryOrder == <<"SB", "B", "N", "G", "SG">>
Rank(c) == CHOOSE i \in 1..5 : CategoryOrder[i] = c

DEFAULT_PERCENTILE_CATEGORIES ==
    [SB |-> 13, B |-> 56, N |-> 144, G |-> 187, SG |-> 200]

(***************************************************************************)
(* AlertService.__init__ and _update_config.  A configuration handed to    *)
(* the constructor is None (given = FALSE) or a dict whose keys may be     *)
(* absent: percentile_categories is a partial override (pc, over the keys  *)
(* pc_keys), min_sessions an integer.                                      *)
(***************************************************************************)
NoConfig == [given |-> FALSE, has_pc |-> FALSE, pc_keys |-> {},
             pc |-> DEFAULT_PERCENTILE_CATEGORIES,
             has_min |-> FALSE, min_sessions |-> 0]

update_config(base, c) ==
    [base EXCEPT !.percentile_categories =
        IF c.has_pc
        THEN [key \in CategoryKeys |->
                 IF key \in c.pc_keys THEN c.pc[key] ELSE @[key]]
        ELSE @]

\* the two config keys never merged by _update_config keep their defaults
service_config(c) ==
    LET base == [percentile_categories |-> DEFAULT_PERCENTILE_CATEGORIES,
                 min_sessions |-> DEFAULT_MIN_SESSIONS,
                 has_min_sessions_for_scoring |-> FALSE]
    IN IF c.given THEN update_config(base, c) ELSE base

ConfigChoices ==
    { NoConfig,
      [NoConfig EXCEPT !.given = TRUE, !.has_pc = TRUE,
                       !.pc_keys = {"SB", "B"},
                       !.pc = [DEFAULT_PERCENTILE_CATEGORIES
                                  EXCEPT !.SB = 20, !.B = 60]],
      [NoConfig EXCEPT !.given = TRUE, !.has_pc = TRUE,
                       !.pc_keys = {"SB", "B"},
                       !.pc = [DEFAULT_PERCENTILE_CATEGORIES
                                  EXCEPT !.SB = 60, !.B = 20]],
      [NoConfig EXCEPT !.given = TRUE, !.has_min = TRUE, !.min_sessions = 5] }

(***************************************************************************)
(* PercentileClassifier: the two classifier entry points.                  *)
(***************************************************************************)
map_percentile_to_category_Mut(p) ==
    LET categories == config.percentile_categories IN
    IF IsMissing(p) THEN "Unknown"
    ELSE IF Less(p, categories.SB) THEN "SB"
    ELSE IF Less(p, categories.N) THEN "N"
    ELSE IF Less(p, categories.B) THEN "B"
    ELSE IF Less(p, categories.G) THEN "G"
    ELSE "SG"

map_percentile_to_category(p) ==
    LET categories == config.percentile_categories IN
    IF IsMissing(p) THEN "Unknown"
    ELSE IF Less(p, categories.SB) THEN "SB"
    ELSE IF Less(p, categories.B) THEN "B"
    ELSE IF Less(p, categories.N) THEN "N"
    ELSE IF Less(p, categories.G) THEN "G"
    ELSE "SG"

map_overall_percentile_to_category(p) ==
    LET categories == config.percentile_categories IN
    IF IsMissing(p) THEN "NS"
    ELSE IF Less(p, categories.SB) THEN "SB"
    ELSE IF Less(p, categories.B) THEN "B"
    ELSE IF Less(p, categories.N) THEN "N"
    ELSE IF Less(p, categories.G) THEN "G"
    ELSE "SG"

(***************************************************************************)
(* The collaborators behind app_utils.                                     *)
(*   sessions[s]: the subject's rows of get_session_data(): n rows (0: the *)
(*     subject is not in the session data); of the most recent row the     *)
(*     session number, the water volume, the stage and the three features  *)
(*     the not-scored diagnostics read; stage_n rows carry that stage.     *)
(*     NA stands for a NaN cell.                                           *)
(*   off_curriculum: the keys of off_curriculum_subjects.                  *)
(*   session_percentiles[s]: the subject's row of                          *)
(*     get_session_overall_percentiles().                                  *)
(*   comprehensive[s]: the subject's row of                                *)
(*     quantile_analyzer.create_comprehensive_dataframe().                 *)
(***************************************************************************)
NA == 0 - 1

FeatureNames == <<"finished_trials", "ignore_rate">>
Features == {FeatureNames[i] : i \in 1..Len(FeatureNames)}

NoSessions ==
    [n |-> 0, session |-> 0, water_day_total |-> 0,
     current_stage_actual |-> "", stage_n |-> 0,
     finished_trials |-> NA, total_trials |-> NA, ignore_rate |-> NA]

SessionSubjects == {s \in Subjects : app_utils.sessions[s].n > 0}

(***************************************************************************)
(* ThresholdRuleEngine: _create_threshold_alert_structure,                 *)
(* _add_stage_threshold, _process_threshold_alerts, _get_threshold_alerts. *)
(***************************************************************************)
stage_thresholds_Mut ==
    [STAGE_1 |-> 5, STAGE_2 |-> 5, STAGE_3 |-> 5, STAGE_4 |-> 10,
     STAGE_FINAL |-> 10]

stage_thresholds ==
    [STAGE_1 |-> 5, STAGE_2 |-> 5, STAGE_3 |-> 6, STAGE_4 |-> 10,
     STAGE_FINAL |-> 10, GRADUATED |-> 20]

\* x > t in Python, where a NaN x compares False
Greater(x, t) == x # NA /\ x > t

\* str() of a volume kept in tenths
WaterStr(w) ==
    IF w = NA THEN "nan" ELSE ToString(w \div 10) \o "." \o ToString(w % 10)

total_sessions_alert_Mut(session_count) ==
    [value |-> session_count,
     threshold |-> TOTAL_SESSIONS_THRESHOLD,
     alert |-> IF session_count # NA /\ session_count >= TOTAL_SESSIONS_THRESHOLD
               THEN "T" ELSE "N",
     description |->
        IF session_count # NA /\ session_count >= TOTAL_SESSIONS_THRESHOLD
        THEN "Total sessions: " \o ToString(session_count) \o " > 40"
        ELSE ""]

total_sessions_alert(session_count) ==
    [value |-> session_count,
     threshold |-> TOTAL_SESSIONS_THRESHOLD,
     alert |-> IF Greater(session_count, TOTAL_SESSIONS_THRESHOLD)
               THEN "T" ELSE "N",
     description |->
        IF Greater(session_count, TOTAL_SESSIONS_THRESHOLD)
        THEN "Total sessions: " \o ToString(session_count) \o " > 40"
        ELSE ""]

water_day_total_alert(water_day_total) ==
    [value |-> water_day_total,
     threshold |-> WATER_DAY_TOTAL_THRESHOLD,
     alert |-> IF Greater(water_day_total, WATER_DAY_TOTAL_THRESHOLD)
               THEN "T" ELSE "N",
     description |->
        IF Greater(water_day_total, WATER_DAY_TOTAL_THRESHOLD)
        THEN "Water day total: " \o WaterStr(water_day_total) \o " > 3.5ml"
        ELSE ""]

create_threshold_alert_structure(session_count, water_day_total, current_stage) ==
    [threshold_alert |-> "N",
     session_count |-> session_count,
     water_day_total |-> water_day_total,
     stage |-> current_stage,
     specific_alerts |->
        [rule \in {"total_sessions", "water_day_total"} |->
            IF rule = "total_sessions"
            THEN total_sessions_alert(session_count)
            ELSE water_day_total_alert(water_day_total)]]

add_stage_threshold(subject_threshold_alerts, subject_id, current_stage, stage_threshold) ==
    LET stage_sessions_count == app_utils.sessions[subject_id].stage_n
        entry ==
            [value |-> stage_sessions_count,
             threshold |-> stage_threshold,
             alert |-> IF stage_sessions_count > stage_threshold
                       THEN "T" ELSE "N",
             description |->
                IF stage_sessions_count > stage_threshold
                THEN current_stage \o ": " \o ToString(stage_sessions_count)
                     \o " > " \o ToString(stage_threshold)
                ELSE "",
             stage |-> current_stage]
        old == subject_threshold_alerts.specific_alerts
    IN [subject_threshold_alerts EXCEPT !.specific_alerts =
            [rule \in (DOMAIN old) \cup {"stage_sessions"} |->
                IF rule = "stage_sessions" THEN entry ELSE old[rule]]]

\* lines 661-665: the aggregate flag over the rules of the record
overall_threshold_alert_Mut(specific_alerts) ==
    IF \E rule \in (DOMAIN specific_alerts) \ {"stage_sessions"} :
           specific_alerts[rule].alert = "T"
    THEN "T" ELSE "N"

overall_threshold_alert(specific_alerts) ==
    IF \E rule \in DOMAIN specific_alerts : specific_alerts[rule].alert = "T"
    THEN "T" ELSE "N"

subject_threshold_record(subject_id) ==
    LET row == app_utils.sessions[subject_id]
        current_stage == row.current_stage_actual
        base == create_threshold_alert_structure(
                    row.session, row.water_day_total, current_stage)
        staged == IF current_stage \in DOMAIN stage_thresholds
                  THEN add_stage_threshold(base, subject_id, current_stage,
                                           stage_thresholds[current_stage])
                  ELSE base
    IN [staged EXCEPT
           !.threshold_alert = overall_threshold_alert(staged.specific_alerts)]

process_threshold_alerts(most_recent) ==
    [subject_id \in most_recent |-> subject_threshold_record(subject_id)]

get_threshold_alerts ==
    IF app_utils.threshold_analyzer
    THEN process_threshold_alerts(SessionSubjects)
    ELSE <<>>

DefaultThreshold == [threshold_alert |-> "N", specific_alerts |-> <<>>]

(***************************************************************************)
(* A subject id argument: None (given = FALSE) or a list of ids.           *)
(***************************************************************************)
NoIds == [given |-> FALSE, ids |-> {}]
Ids(S) == [given |-> TRUE, ids |-> S]

\* dict.update: the entries of g over those of f
Override(f, g) ==
    [x \in (DOMAIN f) \cup (DOMAIN g) |-> IF x \in DOMAIN g THEN g[x] ELSE f[x]]

(***************************************************************************)
(* NotScoredDiagnostics: get_not_scored_reason and its three checks.       *)
(***************************************************************************)
check_session_count_requirements(subject_sessions) ==
    LET total_sessions == subject_sessions.n
        min_sessions == IF config.has_min_sessions_for_scoring
                        THEN config.min_sessions
                        ELSE DEFAULT_MIN_SESSIONS
    IN IF total_sessions < min_sessions
       THEN "Insufficient sessions: " \o ToString(total_sessions)
            \o " < " \o ToString(min_sessions)
       ELSE ""

check_trial_requirements(subject_sessions) ==
    IF subject_sessions.finished_trials = NA
       \/ subject_sessions.finished_trials = 0
    THEN "No finished trials" ELSE ""

JoinMissing(total, finished, ignore) ==
    LET a == IF total THEN <<"total_trials">> ELSE <<>>
        b == IF finished THEN <<"finished_trials">> ELSE <<>>
        c == IF ignore THEN <<"ignore_rate">> ELSE <<>>
        l == a \o b \o c
    IN IF Len(l) = 1 THEN l[1]
       ELSE IF Len(l) = 2 THEN l[1] \o ", " \o l[2]
       ELSE l[1] \o ", " \o l[2] \o ", " \o l[3]

check_feature_availability(subject_sessions) ==
    LET t == subject_sessions.total_trials = NA
        f == subject_sessions.finished_trials = NA
        i == subject_sessions.ignore_rate = NA
    IN IF t \/ f \/ i
       THEN "Missing features: " \o JoinMissing(t, f, i)
       ELSE ""

\* str(e) of the exception get_session_data raises
SessionFailure == "session data unavailable"

\* the body of the try block: what it returns, or the exception it ends with
not_scored_reason_body(subject_id) ==
    IF app_utils.session_fails
    THEN [raised |-> SessionFailure, value |-> ""]
    ELSE [raised |-> "",
          value |->
            IF SessionSubjects = {} THEN "No session data"
            ELSE IF subject_id \notin SessionSubjects THEN "Subject not found"
            ELSE LET subject_sessions == app_utils.sessions[subject_id] IN
                 IF check_session_count_requirements(subject_sessions) # ""
                 THEN check_session_count_requirements(subject_sessions)
                 ELSE IF check_trial_requirements(subject_sessions) # ""
                 THEN check_trial_requirements(subject_sessions)
                 ELSE IF check_feature_availability(subject_sessions) # ""
                 THEN check_feature_availability(subject_sessions)
                 ELSE "Scoring criteria not met"]

get_not_scored_reason_Mut(subject_id) ==
    IF not_scored_reason_body(subject_id).raised # ""
    THEN "Error determining reason"
    ELSE not_scored_reason_body(subject_id).value

\* except Exception as e: return f"Error determining reason: {str(e)}"
get_not_scored_reason(subject_id) ==
    IF not_scored_reason_body(subject_id).raised # ""
    THEN "Error determining reason: "
         \o not_scored_reason_body(subject_id).raised
    ELSE not_scored_reason_body(subject_id).value

(***************************************************************************)
(* QuantileAlertBuilder: calculate_quantile_alerts and get_quantile_alerts. *)
(* A dict is a record with the set of its keys beside its fields; a field  *)
(* whose key is absent holds a filler that is never read.                  *)
(***************************************************************************)
validate_analyzer == app_utils.analyzers

\* the rows the session-percentile source returns for a request
get_session_overall_percentiles(subject_ids) ==
    {s \in Subjects :
        /\ app_utils.session_percentiles[s].present
        /\ (subject_ids.given => s \in subject_ids.ids)}

quantile_record_Mut(subject_id) ==
    LET row == app_utils.session_percentiles[subject_id]
        present == {f \in Features : ~IsMissing(row.features[f])}
    IN [keys |-> {"subject_id", "overall_percentile", "alert_category",
                  "strata"}
                 \cup (IF IsMissing(row.overall) THEN {"ns_reason"} ELSE {})
                 \cup (IF present # {} THEN {"feature_percentiles"} ELSE {}),
        overall_percentile |-> IF IsMissing(row.overall) THEN PNone
                               ELSE row.overall,
        alert_category |-> IF IsMissing(row.overall) THEN "NS"
                           ELSE map_percentile_to_category(row.overall),
        ns_reason |-> IF IsMissing(row.overall)
                      THEN get_not_scored_reason(subject_id) ELSE "",
        feature_percentiles |->
           [f \in present |->
               [percentile |-> row.features[f],
                category |-> map_percentile_to_category(row.features[f])]]]

quantile_record(subject_id) ==
    LET row == app_utils.session_percentiles[subject_id]
        present == {f \in Features : ~IsMissing(row.features[f])}
    IN IF IsMissing(row.overall)
       THEN [keys |-> {"subject_id", "overall_percentile", "alert_category",
                       "ns_reason", "strata"},
             overall_percentile |-> PNone,
             alert_category |-> "NS",
             ns_reason |-> get_not_scored_reason(subject_id),
             feature_percentiles |-> <<>>]
       ELSE [keys |-> {"subject_id", "overall_percentile", "alert_category",
                       "strata"}
                      \cup (IF present # {} THEN {"feature_percentiles"}
                            ELSE {}),
             overall_percentile |-> row.overall,
             alert_category |-> map_percentile_to_category(row.overall),
             ns_reason |-> "",
             feature_percentiles |->
                [f \in present |->
                    [percentile |-> row.features[f],
                     category |-> map_percentile_to_category(row.features[f])]]]

\* [raised, stored (what _quantile_alerts becomes), value]
calculate_quantile_alerts(subject_ids) ==
    IF ~validate_analyzer
    THEN [raised |-> "", stored |-> quantile_alerts, value |-> <<>>]
    ELSE IF app_utils.overall_fails
    THEN [raised |-> "Exception", stored |-> quantile_alerts, value |-> <<>>]
    ELSE LET alerts == [s \in get_session_overall_percentiles(subject_ids) |->
                           quantile_record(s)]
         IN [raised |-> "", stored |-> alerts, value |-> alerts]

\* _quantile_alerts is set to {} by the constructor, never to None, so the
\* `is None` test of line 250 never recomputes
get_quantile_alerts(subject_ids) ==
    IF ~validate_analyzer THEN <<>>
    ELSE IF ~subject_ids.given THEN quantile_alerts
    ELSE [s \in subject_ids.ids \cap DOMAIN quantile_alerts |->
             quantile_alerts[s]]

(***************************************************************************)
(* AlertUnifier: AlertService.get_unified_alerts and its steps.            *)
(***************************************************************************)
EmptyQuantile == [keys |-> {"current", "historical"}]

BlankAlert ==
    [keys |-> {}, quantile |-> EmptyQuantile, threshold |-> DefaultThreshold,
     overall_percentile |-> PNone, alert_category |-> "", ns_reason |-> "",
     feature_percentiles |-> <<>>, calculated_overall_percentile |-> PNone]

determine_all_subjects(subject_ids, quantile_alerts_, threshold_alerts) ==
    IF subject_ids.given THEN subject_ids.ids
    ELSE (DOMAIN quantile_alerts_) \cup (DOMAIN threshold_alerts)
         \cup SessionSubjects

handle_off_curriculum_subjects_Mut(all_subjects, unified_alerts) ==
    Override(unified_alerts,
        [s \in all_subjects \cap app_utils.off_curriculum |->
            [BlankAlert EXCEPT
                !.keys = {"alert_category", "overall_percentile", "ns_reason",
                          "threshold"},
                !.alert_category = "NS",
                !.overall_percentile = PNone,
                !.ns_reason = get_not_scored_reason(s),
                !.threshold = IF s \in DOMAIN get_threshold_alerts
                              THEN get_threshold_alerts[s]
                              ELSE DefaultThreshold]])

handle_off_curriculum_subjects(all_subjects, unified_alerts) ==
    Override(unified_alerts,
        [s \in all_subjects \cap app_utils.off_curriculum |->
            [BlankAlert EXCEPT
                !.keys = {"alert_category", "overall_percentile", "ns_reason",
                          "threshold"},
                !.alert_category = "NS",
                !.overall_percentile = PNone,
                !.ns_reason = get_not_scored_reason(s),
                !.threshold = DefaultThreshold]])

process_quantile_and_threshold_alerts(quantile_alerts_, threshold_alerts, unified_alerts) ==
    LET merged ==
            Override(unified_alerts,
                [s \in (DOMAIN quantile_alerts_) \ app_utils.off_curriculum |->
                    [BlankAlert EXCEPT
                        !.keys = {"quantile", "threshold"},
                        !.quantile = quantile_alerts_[s],
                        !.threshold = IF s \in DOMAIN threshold_alerts
                                      THEN threshold_alerts[s]
                                      ELSE DefaultThreshold]])
    IN Override(merged,
           [s \in (DOMAIN threshold_alerts) \ (DOMAIN merged) |->
               [BlankAlert EXCEPT
                   !.keys = {"quantile", "threshold"},
                   !.quantile = EmptyQuantile,
                   !.threshold = threshold_alerts[s]]])

get_category_description(category) ==
    CASE category = "SB" -> "Significantly Below Average"
      [] category = "B" -> "Below Average"
      [] category = "N" -> "Average"
      [] category = "G" -> "Above Average"
      [] category = "SG" -> "Significantly Above Average"
      [] OTHER -> "Unknown"

extract_feature_percentiles(row) ==
    [f \in {g \in Features : ~IsMissing(row.values[g])} |->
        [percentile |-> row.values[f],
         category |-> map_percentile_to_category(row.values[f]),
         description |-> get_category_description(
                             map_percentile_to_category(row.values[f]))]]

RECURSIVE SumPercentiles(_, _)
SumPercentiles(fp, todo) ==
    IF todo = {} THEN 0
    ELSE LET f == CHOOSE g \in todo : TRUE
         IN fp[f].percentile.n + SumPercentiles(fp, todo \ {f})

\* sum(percentile_values) / len(percentile_values); the values are whole
\* half-percents
calculated_overall(fp) ==
    Frac(SumPercentiles(fp, DOMAIN fp), Cardinality(DOMAIN fp))

process_feature_percentiles(unified_alerts, subject_ids) ==
    LET touched ==
            {s \in DOMAIN unified_alerts :
                /\ app_utils.comprehensive[s].present
                /\ (subject_ids.given => s \in subject_ids.ids)
                /\ app_utils.comprehensive[s].is_current}
    IN [s \in DOMAIN unified_alerts |->
           IF s \notin touched THEN unified_alerts[s]
           ELSE LET fp == extract_feature_percentiles(
                              app_utils.comprehensive[s])
                IN [unified_alerts[s] EXCEPT
                       !.keys = @ \cup {"feature_percentiles", "strata"}
                                  \cup (IF DOMAIN fp # {}
                                        THEN {"calculated_overall_percentile"}
                                        ELSE {}),
                       !.feature_percentiles = fp,
                       !.calculated_overall_percentile =
                           IF DOMAIN fp # {} THEN calculated_overall(fp)
                           ELSE PNone]]

\* the dict subject -> session_overall_percentile of _add_overall_percentiles
overall_percentiles_of(all_subjects) ==
    IF app_utils.overall_fails THEN <<>>
    ELSE [s \in get_session_overall_percentiles(Ids(all_subjects)) |->
             app_utils.session_percentiles[s].overall]

process_subject_overall_percentile_Mut(subject_id, alert, overall_percentiles) ==
    LET calculated == "calculated_overall_percentile" \in alert.keys
        overall_percentile ==
            IF calculated THEN alert.calculated_overall_percentile
            ELSE IF subject_id \in DOMAIN overall_percentiles
            THEN overall_percentiles[subject_id]
            ELSE PNone
        scored == ~IsMissing(overall_percentile)
    IN [alert EXCEPT
           !.keys = (@ \ {"calculated_overall_percentile"})
                    \cup {"overall_percentile", "alert_category"},
           !.calculated_overall_percentile = PNone,
           !.overall_percentile = overall_percentile,
           !.alert_category =
               IF scored
               THEN map_overall_percentile_to_category(overall_percentile)
               ELSE "NS"]

process_subject_overall_percentile(subject_id, alert, overall_percentiles) ==
    LET calculated == "calculated_overall_percentile" \in alert.keys
        overall_percentile ==
            IF calculated THEN alert.calculated_overall_percentile
            ELSE IF subject_id \in DOMAIN overall_percentiles
            THEN overall_percentiles[subject_id]
            ELSE PNone
        scored == ~IsMissing(overall_percentile)
    IN [alert EXCEPT
           !.keys = (@ \ {"calculated_overall_percentile"})
                    \cup {"overall_percentile", "alert_category"}
                    \cup (IF scored THEN {} ELSE {"ns_reason"}),
           !.calculated_overall_percentile = PNone,
           !.overall_percentile = overall_percentile,
           !.alert_category =
               IF scored
               THEN map_overall_percentile_to_category(overall_percentile)
               ELSE "NS",
           !.ns_reason =
               IF ~scored /\ "ns_reason" \notin alert.keys
               THEN get_not_scored_reason(subject_id)
               ELSE @]

add_overall_percentiles(all_subjects, unified_alerts) ==
    LET overall_percentiles == overall_percentiles_of(all_subjects) IN
    [s \in DOMAIN unified_alerts |->
        process_subject_overall_percentile(s, unified_alerts[s],
                                           overall_percentiles)]

handle_subjects_without_alerts_Mut(all_subjects, unified_alerts) ==
    Override(unified_alerts,
        [s \in all_subjects \ DOMAIN unified_alerts |->
            [BlankAlert EXCEPT
                !.keys = {"quantile", "threshold", "overall_percentile",
                          "alert_category", "ns_reason"},
                !.quantile = EmptyQuantile,
                !.threshold = DefaultThreshold,
                !.overall_percentile = PNone,
                !.alert_category = "N",
                !.ns_reason = get_not_scored_reason(s)]])

handle_subjects_without_alerts(all_subjects, unified_alerts) ==
    Override(unified_alerts,
        [s \in all_subjects \ DOMAIN unified_alerts |->
            [BlankAlert EXCEPT
                !.keys = {"quantile", "threshold", "overall_percentile",
                          "alert_category", "ns_reason"},
                !.quantile = EmptyQuantile,
                !.threshold = DefaultThreshold,
                !.overall_percentile = PNone,
                !.alert_category = "NS",
                !.ns_reason = get_not_scored_reason(s)]])

\* AlertService.get_unified_alerts: [raised, value]
service_get_unified_alerts(subject_ids) ==
    IF ~validate_analyzer
    THEN [raised |-> "ValueError", value |-> <<>>]
    ELSE IF \/ app_utils.features_fail
            \/ (app_utils.session_fails
                /\ (app_utils.threshold_analyzer \/ ~subject_ids.given))
    THEN [raised |-> "Exception", value |-> <<>>]
    ELSE
    LET quantile_alerts_ == get_quantile_alerts(subject_ids)
        threshold_alerts == get_threshold_alerts
        all_subjects == determine_all_subjects(subject_ids, quantile_alerts_,
                                               threshold_alerts)
        u1 == handle_off_curriculum_subjects(all_subjects, <<>>)
        u2 == process_quantile_and_threshold_alerts(quantile_alerts_,
                                                    threshold_alerts, u1)
        u3 == process_feature_percentiles(u2, subject_ids)
        u4 == add_overall_percentiles(all_subjects, u3)
        u5 == handle_subjects_without_alerts(all_subjects, u4)
    IN [raised |-> "", value |-> u5]

(***************************************************************************)
(* Category masks over a dataset (a table with one row per subject):       *)
(* AlertService.get_alert_category_mask and filter_by_threshold_alerts.    *)
(* A dataset is the set of its column names and the sequence of its rows;  *)
(* a cell of a column the dataset lacks is never read.  A boolean Series   *)
(* is empty (the Series of an absent column) or has one value per row.     *)
(***************************************************************************)
AlertColumns ==
    <<"total_sessions_alert", "stage_sessions_alert", "water_day_total_alert">>

Contains(str, pat) ==
    \E i \in 1..(Len(str) - Len(pat) + 1) :
        SubSeq(str, i, i + Len(pat) - 1) = pat

EmptySeries == [empty |-> TRUE, vals |-> <<>>]

IsT(cell) == cell = "T"
HasTMarker(cell) == Contains(cell, "T |")

\* the boolean Series of one column test; an absent column gives pd.Series()
ColumnTest(d, col, marker) ==
    IF col \in d.columns
    THEN [empty |-> FALSE,
          vals |-> [i \in 1..Len(d.rows) |->
                       IF marker THEN HasTMarker(d.rows[i][col])
                       ELSE IsT(d.rows[i][col])]]
    ELSE EmptySeries

\* left | right on Series: the operands are aligned on the union of their
\* indexes; a label missing on the right counts as False, a label missing
\* on the left makes the result False
SeriesOr(left, right) ==
    IF left.empty THEN
        IF right.empty THEN EmptySeries
        ELSE [empty |-> FALSE,
              vals |-> [i \in 1..Len(right.vals) |-> FALSE]]
    ELSE IF right.empty THEN left
    ELSE [empty |-> FALSE,
          vals |-> [i \in 1..Len(left.vals) |-> left.vals[i] \/ right.vals[i]]]

percentile_col(d) ==
    IF "overall_percentile_category" \in d.columns
    THEN "overall_percentile_category"
    ELSE "percentile_category"

get_alert_category_mask_Mut(d, alert_category) ==
    IF Len(d.rows) = 0 THEN [raised |-> "", mask |-> EmptySeries]
    ELSE IF alert_category = "T"
    THEN [raised |-> "", mask |-> ColumnTest(d, "threshold_alert", FALSE)]
    ELSE IF percentile_col(d) \notin d.columns
    THEN [raised |-> "KeyError", mask |-> EmptySeries]
    ELSE [raised |-> "",
          mask |-> [empty |-> FALSE,
                    vals |-> [i \in 1..Len(d.rows) |->
                                 d.rows[i][percentile_col(d)]
                                     = alert_category]]]

\* [raised, mask]
get_alert_category_mask(d, alert_category) ==
    IF Len(d.rows) = 0 THEN [raised |-> "", mask |-> EmptySeries]
    ELSE IF alert_category = "T"
    THEN [raised |-> "",
          mask |-> SeriesOr(SeriesOr(SeriesOr(
                       ColumnTest(d, "threshold_alert", FALSE),
                       ColumnTest(d, AlertColumns[1], TRUE)),
                       ColumnTest(d, AlertColumns[2], TRUE)),
                       ColumnTest(d, AlertColumns[3], TRUE))]
    ELSE IF percentile_col(d) \notin d.columns
    THEN [raised |-> "KeyError", mask |-> EmptySeries]
    ELSE [raised |-> "",
          mask |-> [empty |-> FALSE,
                    vals |-> [i \in 1..Len(d.rows) |->
                                 d.rows[i][percentile_col(d)]
                                     = alert_category]]]

RECURSIVE SelectRows(_, _, _)
SelectRows(rows, vals, i) ==
    IF i > Len(rows) THEN <<>>
    ELSE (IF vals[i] THEN <<rows[i]>> ELSE <<>>)
         \o SelectRows(rows, vals, i + 1)

\* df[mask]: [raised, value]; a mask that does not line up with the rows
\* cannot index them
ApplyMask(d, mask) ==
    IF mask.empty /\ Len(d.rows) > 0
    THEN [raised |-> "IndexingError", value |-> d]
    ELSE [raised |-> "",
          value |-> [d EXCEPT !.rows = SelectRows(d.rows, mask.vals, 1)]]

filter_by_threshold_alerts(d) ==
    IF Len(d.rows) = 0 THEN [raised |-> "", value |-> d]
    ELSE ApplyMask(d, get_alert_category_mask(d, "T").mask)

MaskSum(mask) ==
    IF mask.empty THEN 0
    ELSE Cardinality({i \in 1..Len(mask.vals) : mask.vals[i]})

(***************************************************************************)
(* AlertCoordinator: the facade and the single cache slot.  The cache      *)
(* manager is a collaborator; of it the facade uses has, get and set on    *)
(* the key "unified_alerts".                                               *)
(***************************************************************************)
CacheHas == cache.slot # <<>>
CacheGet == cache.slot[1]
CacheSet(alerts) == <<alerts>>

NotInitialized == "Alert service not initialized. Call initialize_alert_service() first."

coord_get_quantile_alerts_Mut(subject_ids) ==
    [raised |-> "", value |-> get_quantile_alerts(subject_ids)]

coord_get_quantile_alerts(subject_ids) ==
    IF alert_service = "None"
    THEN [raised |-> "ValueError", value |-> <<>>]
    ELSE [raised |-> "", value |-> get_quantile_alerts(subject_ids)]

use_cached_slot_Mut(subject_ids, use_cache) ==
    use_cache /\ cache.manager /\ CacheHas

\* lines 85-90: the request is answered from the slot
use_cached_slot(subject_ids, use_cache) ==
    use_cache /\ ~subject_ids.given /\ cache.manager /\ CacheHas

\* line 98: the result is written to the slot
store_in_slot_Mut(subject_ids) ==
    ~subject_ids.given /\ cache.manager /\ ~CacheHas

store_in_slot(subject_ids) ==
    ~subject_ids.given /\ cache.manager

\* [raised, served, value, slot]
coord_get_unified_alerts(subject_ids, use_cache) ==
    IF alert_service = "None"
    THEN [raised |-> "ValueError", served |-> "", value |-> <<>>,
          slot |-> cache.slot]
    ELSE IF use_cached_slot(subject_ids, use_cache)
    THEN [raised |-> "", served |-> "cache", value |-> CacheGet,
          slot |-> cache.slot]
    ELSE LET r == service_get_unified_alerts(subject_ids) IN
         IF r.raised # ""
         THEN [raised |-> r.raised, served |-> "", value |-> <<>>,
               slot |-> cache.slot]
         ELSE [raised |-> "", served |-> "computed", value |-> r.value,
               slot |-> IF store_in_slot(subject_ids)
                        THEN CacheSet(r.value) ELSE cache.slot]

\* the slot after clear_alert_cache (lines 107-111)
clear_slot == cache.slot

CountBy(alerts, category) ==
    Cardinality({s \in DOMAIN alerts : alerts[s].alert_category = category})

SummaryError(msg) ==
    [error |-> msg, total_subjects |-> 0, category_counts |-> <<>>]

\* lines 139-157: the statistics of one answer of get_unified_alerts, or
\* the error record of the except branch
summary_of(r) ==
    IF r.raised # ""
    THEN [raised |-> "", slot |-> r.slot,
          value |-> SummaryError("Error calculating alert summary")]
    ELSE [raised |-> "", slot |-> r.slot,
          value |->
            [error |-> "",
             total_subjects |-> Cardinality(DOMAIN r.value),
             category_counts |->
                [c \in {r.value[s].alert_category : s \in DOMAIN r.value} |->
                    CountBy(r.value, c)]]]

\* [raised, value, slot]
get_alert_summary_stats(subject_ids) ==
    IF alert_service = "None"
    THEN [raised |-> "", slot |-> cache.slot,
          value |-> SummaryError("Alert service not initialized")]
    ELSE CHOOSE stats \in
             {summary_of(alerts) :
                 alerts \in {coord_get_unified_alerts(subject_ids, TRUE)}} :
             TRUE

filter_by_alert_category_Mut(d, alert_category) ==
    IF Len(d.rows) = 0
    THEN [raised |-> "", value |-> d]
    ELSE IF alert_service = "None"
    THEN [raised |-> "ValueError", value |-> d]
    ELSE IF alert_category = "T"
    THEN filter_by_threshold_alerts(d)
    ELSE LET m == get_alert_category_mask(d, alert_category)
             r == ApplyMask(d, m.mask)
         IN IF m.raised # "" \/ r.raised # ""
            THEN [raised |-> "", value |-> d]
            ELSE [raised |-> "", value |-> r.value]

\* [raised, value]
filter_by_alert_category(d, alert_category) ==
    IF Len(d.rows) = 0 \/ alert_category = "all"
    THEN [raised |-> "", value |-> d]
    ELSE IF alert_service = "None"
    THEN [raised |-> "ValueError", value |-> d]
    ELSE IF alert_category = "T"
    THEN filter_by_threshold_alerts(d)
    ELSE LET m == get_alert_category_mask(d, alert_category)
             r == ApplyMask(d, m.mask)
         IN IF m.raised # "" \/ r.raised # ""
            THEN [raised |-> "", value |-> d]
            ELSE [raised |-> "", value |-> r.value]

\* value_counts() of the category column: the cells that are not NaN
fallback_aggregation(d) ==
    IF percentile_col(d) \in d.columns
    THEN LET cells == {d.rows[i][percentile_col(d)] : i \in 1..Len(d.rows)}
                          \ {"nan"}
         IN [c \in cells |->
                Cardinality({i \in 1..Len(d.rows) :
                                d.rows[i][percentile_col(d)] = c})]
    ELSE <<>>

StandardCategories == <<"NS", "SB", "B", "N", "G", "SG">>

\* a category whose mask cannot be built is recorded with count 0, one
\* with no row is left out
count_standard_categories(d) ==
    LET cats == {StandardCategories[i] : i \in 1..Len(StandardCategories)}
        kept == {c \in cats :
                    \/ get_alert_category_mask(d, c).raised # ""
                    \/ MaskSum(get_alert_category_mask(d, c).mask) > 0}
    IN [c \in kept |->
           IF get_alert_category_mask(d, c).raised # "" THEN 0
           ELSE MaskSum(get_alert_category_mask(d, c).mask)]

count_threshold_alerts(d, aggregation_results) ==
    LET threshold_count == MaskSum(get_alert_category_mask(d, "T").mask)
    IN IF threshold_count > 0
       THEN Override(aggregation_results,
                     [c \in {"T"} |-> threshold_count])
       ELSE aggregation_results

RECURSIVE SumCounts(_, _)
SumCounts(counts, todo) ==
    IF todo = {} THEN 0
    ELSE LET c == CHOOSE x \in todo : TRUE
         IN counts[c] + SumCounts(counts, todo \ {c})

validate_and_adjust_counts_Mut(d, aggregation_results) ==
    aggregation_results

validate_and_adjust_counts(d, aggregation_results) ==
    LET total_aggregated ==
            SumCounts(aggregation_results, DOMAIN aggregation_results)
        actual_total == Len(d.rows)
    IN IF total_aggregated < actual_total
       THEN Override(aggregation_results,
                     [c \in {"Unknown"} |-> actual_total - total_aggregated])
       ELSE aggregation_results

\* [raised, value]
aggregate_alert_categories(d) ==
    IF Len(d.rows) = 0 THEN [raised |-> "", value |-> <<>>]
    ELSE IF alert_service = "None"
    THEN [raised |-> "", value |-> fallback_aggregation(d)]
    ELSE [raised |-> "",
          value |-> validate_and_adjust_counts(d,
                        count_threshold_alerts(d,
                            count_standard_categories(d)))]

(***************************************************************************)
(* AlertCoordinator.validate_alert_configuration.  The configuration it is *)
(* handed may lack percentile_categories (has_pc = FALSE); when given, the *)
(* map may lack keys and its values are numbers or not (kind "num" or      *)
(* "str").  feature_config is absent, a dict or something else.            *)
(***************************************************************************)
IsNumeric(cell) == cell.kind = "num"

RECURSIVE key_errors(_, _)
key_errors(categories, i) ==
    IF i > Len(CategoryOrder) THEN <<>>
    ELSE LET key == CategoryOrder[i] IN
         (IF key \notin DOMAIN categories
          THEN <<"Missing category threshold: " \o key>>
          ELSE IF ~IsNumeric(categories[key])
          THEN <<"Invalid threshold type for " \o key \o ": must be numeric">>
          ELSE <<>>)
         \o key_errors(categories, i + 1)

\* thresholds != sorted(thresholds)
NotSorted(categories) ==
    \E i \in 1..(Len(CategoryOrder) - 1) :
        categories[CategoryOrder[i]].v > categories[CategoryOrder[i + 1]].v

ordering_warnings_Mut(categories) ==
    IF \E i \in 1..(Len(CategoryOrder) - 1) :
          categories[CategoryOrder[i]].v >= categories[CategoryOrder[i + 1]].v
    THEN <<"Category thresholds may not be in expected order">>
    ELSE <<>>

ordering_warnings(categories) ==
    IF NotSorted(categories)
    THEN <<"Category thresholds may not be in expected order">>
    ELSE <<>>

validate_alert_configuration(c) ==
    LET category_errors ==
            IF c.has_pc THEN key_errors(c.pc, 1) ELSE <<>>
        warnings ==
            IF c.has_pc /\ category_errors = <<>>
            THEN ordering_warnings(c.pc) ELSE <<>>
        feature_errors ==
            IF c.feature_config \notin {"absent", "dict"}
            THEN <<"feature_config must be a dictionary">> ELSE <<>>
    IN [valid |-> category_errors = <<>> /\ feature_errors = <<>>,
        warnings |-> warnings,
        errors |-> category_errors \o feature_errors]

(***************************************************************************)
(* Values shared by the specifications.                                    *)
(***************************************************************************)
NoPctRow == [present |-> FALSE, overall |-> PNaN,
             features |-> [f \in Features |-> PNaN]]
NoCompRow == [present |-> FALSE, is_current |-> FALSE,
              values |-> [f \in Features |-> PNaN]]

QuietWorld ==
    [analyzers |-> TRUE, threshold_analyzer |-> TRUE,
     session_fails |-> FALSE, overall_fails |-> FALSE,
     features_fail |-> FALSE,
     sessions |-> [s \in Subjects |-> NoSessions],
     off_curriculum |-> {},
     session_percentiles |-> [s \in Subjects |-> NoPctRow],
     comprehensive |-> [s \in Subjects |-> NoCompRow]]

NoResult == [op |-> "none"]
NoDf == [columns |-> {}, rows |-> <<>>]
NoCache == [manager |-> TRUE, slot |-> <<>>]

PctInputs == {Num(n) : n \in 0..MaxPct} \cup {PNone, PNaN}

(***************************************************************************)
(* SpecClassify: the classifier entry points applied to every percentile   *)
(* under every configuration an AlertService can be constructed with.      *)
(***************************************************************************)
InitClassify ==
    /\ alert_service = "AlertService"
    /\ config \in {service_config(c) : c \in ConfigChoices}
    /\ quantile_alerts = <<>>
    /\ cache = NoCache
    /\ app_utils = QuietWorld
    /\ df = NoDf
    /\ percentile \in PctInputs
    /\ result = NoResult

MapPercentileToCategory ==
    /\ result' = [op |-> "map_percentile_to_category", arg |-> percentile,
                  raised |-> FALSE,
                  value |-> map_percentile_to_category(percentile)]
    /\ UNCHANGED <<alert_service, config, quantile_alerts, cache, app_utils,
                   df, percentile>>

MapOverallPercentileToCategory ==
    /\ result' = [op |-> "map_overall_percentile_to_category",
                  arg |-> percentile, raised |-> FALSE,
                  value |-> map_overall_percentile_to_category(percentile)]
    /\ UNCHANGED <<alert_service, config, quantile_alerts, cache, app_utils,
                   df, percentile>>

NextClassify == MapPercentileToCategory \/ MapOverallPercentileToCategory

SpecClassify == InitClassify /\ [][NextClassify]_vars

(***************************************************************************)
(* SpecThreshold: the threshold rule engine applied to the session history *)
(* of one subject, over the values around every rule's bound.              *)
(***************************************************************************)
StageChoices == (DOMAIN stage_thresholds) \cup {"", "STAGE_X"}

ThresholdRows ==
    { [NoSessions EXCEPT !.n = sn, !.session = sc, !.water_day_total = w,
                         !.current_stage_actual = st, !.stage_n = sn]
        : sc \in {1, TOTAL_SESSIONS_THRESHOLD, TOTAL_SESSIONS_THRESHOLD + 1,
                  TOTAL_SESSIONS_THRESHOLD + 5},
          w \in {NA, 20, WATER_DAY_TOTAL_THRESHOLD,
                 WATER_DAY_TOTAL_THRESHOLD + 1},
          st \in StageChoices,
          sn \in {1, 5, 6, 7, 10, 11, 20, 21} }

InitThreshold ==
    /\ alert_service = "AlertService"
    /\ config = service_config(NoConfig)
    /\ quantile_alerts = <<>>
    /\ cache = NoCache
    /\ \E row \in ThresholdRows, ta \in BOOLEAN :
          app_utils = [QuietWorld EXCEPT
                          !.threshold_analyzer = ta,
                          !.sessions = [s \in Subjects |->
                                           IF s = 1 THEN row ELSE NoSessions]]
    /\ df = NoDf
    /\ percentile = PNone
    /\ result = NoResult

GetThresholdAlerts ==
    /\ result' = [op |-> "get_threshold_alerts", raised |-> FALSE,
                  value |-> get_threshold_alerts]
    /\ UNCHANGED <<alert_service, config, quantile_alerts, cache, app_utils,
                   df, percentile>>

NextThreshold == GetThresholdAlerts

SpecThreshold == InitThreshold /\ [][NextThreshold]_vars

(***************************************************************************)
(* SpecUnify: AlertService.calculate_quantile_alerts and                   *)
(* AlertService.get_unified_alerts over every combination of collaborator  *)
(* data for the subjects.                                                  *)
(***************************************************************************)
QuietRow ==
    [n |-> 3, session |-> 3, water_day_total |-> 20,
     current_stage_actual |-> "STAGE_1", stage_n |-> 3,
     finished_trials |-> 100, total_trials |-> 120, ignore_rate |-> 1]
FiringRow ==
    [n |-> 7, session |-> TOTAL_SESSIONS_THRESHOLD + 5, water_day_total |-> 20,
     current_stage_actual |-> "STAGE_2", stage_n |-> 6,
     finished_trials |-> 0, total_trials |-> NA, ignore_rate |-> 1]

HighPctRow ==
    [present |-> TRUE, overall |-> Num(190),
     features |-> [f \in Features |->
                      IF f = FeatureNames[1] THEN Num(120) ELSE PNaN]]
NaNPctRow == [NoPctRow EXCEPT !.present = TRUE]

LowCompRow ==
    [present |-> TRUE, is_current |-> TRUE,
     values |-> [f \in Features |->
                    IF f = FeatureNames[1] THEN Num(20) ELSE Num(41)]]

CollaboratorFlags ==
    LET ok == [analyzers |-> TRUE, threshold_analyzer |-> TRUE,
               session_fails |-> FALSE, overall_fails |-> FALSE,
               features_fail |-> FALSE]
    IN { ok,
         [ok EXCEPT !.analyzers = FALSE],
         [ok EXCEPT !.threshold_analyzer = FALSE],
         [ok EXCEPT !.session_fails = TRUE],
         [ok EXCEPT !.overall_fails = TRUE],
         [ok EXCEPT !.features_fail = TRUE] }

World(flags, sessions, off, pcts, comp) ==
    [analyzers |-> flags.analyzers,
     threshold_analyzer |-> flags.threshold_analyzer,
     session_fails |-> flags.session_fails,
     overall_fails |-> flags.overall_fails,
     features_fail |-> flags.features_fail,
     sessions |-> sessions, off_curriculum |-> off,
     session_percentiles |-> pcts, comprehensive |-> comp]

UnifyWorlds ==
    { World(flags, sessions, off, pcts, comp) :
        flags \in CollaboratorFlags,
        sessions \in [Subjects -> {NoSessions, QuietRow, FiringRow}],
        off \in SUBSET Subjects,
        pcts \in [Subjects -> {NoPctRow, NaNPctRow, HighPctRow}],
        comp \in [Subjects -> {NoCompRow, LowCompRow}] }

\* the id arguments of a request: None, or a list of one subject
IdChoices == {NoIds} \cup {Ids({s}) : s \in Subjects}

InitUnify ==
    /\ alert_service = "AlertService"
    /\ config = service_config(NoConfig)
    /\ quantile_alerts = <<>>
    /\ cache = NoCache
    /\ app_utils \in UnifyWorlds
    /\ df = NoDf
    /\ percentile = PNone
    /\ result = NoResult

CalculateQuantileAlerts(subject_ids) ==
    LET r == calculate_quantile_alerts(subject_ids) IN
    /\ quantile_alerts' = r.stored
    /\ result' = [op |-> "calculate_quantile_alerts",
                  subject_ids |-> subject_ids,
                  raised |-> r.raised, value |-> r.value]
    /\ UNCHANGED <<alert_service, config, cache, app_utils, df, percentile>>

stored_after_unify_Mut(subject_ids) ==
    [s \in (DOMAIN quantile_alerts) \ subject_ids.ids |-> quantile_alerts[s]]

\* _quantile_alerts after AlertService.get_unified_alerts: the merge (lines
\* 774-781) puts each stored record into the answer by reference and no
\* step writes into it, so the store is as before
stored_after_unify(subject_ids) == quantile_alerts

ServiceGetUnifiedAlerts(subject_ids) ==
    LET r == service_get_unified_alerts(subject_ids) IN
    /\ result' = [op |-> "get_unified_alerts", subject_ids |-> subject_ids,
                  use_cache |-> FALSE, served |-> "computed",
                  raised |-> r.raised, value |-> r.value,
                  service_before |-> alert_service, slot_before |-> cache.slot]
    /\ quantile_alerts' = stored_after_unify(subject_ids)
    /\ UNCHANGED <<alert_service, config, cache, app_utils, df, percentile>>

NextUnify ==
    \/ \E subject_ids \in IdChoices : CalculateQuantileAlerts(subject_ids)
    \/ \E subject_ids \in IdChoices : ServiceGetUnifiedAlerts(subject_ids)

SpecUnify == InitUnify /\ [][NextUnify]_vars

(***************************************************************************)
(* The operations of the facade as steps.  Beside what the operation       *)
(* returned, result keeps what the operation found when it was called:     *)
(* service_before (alert_service), slot_before (the cache slot) and prev   *)
(* (the call before it, when that was an initialize or a clear).           *)
(***************************************************************************)
Resetting == {"initialize_alert_service", "clear_alert_cache"}

Called(op) ==
    [op |-> op,
     prev |-> IF result.op \in Resetting THEN result.op ELSE "other",
     service_before |-> alert_service, slot_before |-> cache.slot]

\* a new AlertService: the configuration, and _quantile_alerts = {}; no
\* force_reset exists, and the cache manager is not touched
InitializeAlertService(c) ==
    /\ alert_service' = "AlertService"
    /\ config' = service_config(c)
    /\ quantile_alerts' = <<>>
    /\ cache' = cache
    /\ result' = Called("initialize_alert_service")
                 @@ [raised |-> "", config |-> c]
    /\ UNCHANGED <<app_utils, df, percentile>>

GetQuantileAlerts(subject_ids) ==
    LET r == coord_get_quantile_alerts(subject_ids) IN
    /\ result' = Called("get_quantile_alerts")
                 @@ [subject_ids |-> subject_ids, raised |-> r.raised,
                     value |-> r.value]
    /\ UNCHANGED <<alert_service, config, quantile_alerts, cache, app_utils,
                   df, percentile>>

GetUnifiedAlerts(subject_ids, use_cache) ==
    LET r == coord_get_unified_alerts(subject_ids, use_cache) IN
    /\ cache' = [cache EXCEPT !.slot = r.slot]
    /\ result' = Called("get_unified_alerts")
                 @@ [subject_ids |-> subject_ids, use_cache |-> use_cache,
                     raised |-> r.raised, served |-> r.served,
                     value |-> r.value]
    /\ UNCHANGED <<alert_service, config, quantile_alerts, app_utils, df,
                   percentile>>

ClearAlertCache ==
    /\ cache' = [cache EXCEPT !.slot = IF cache.manager THEN clear_slot ELSE @]
    /\ quantile_alerts' = IF alert_service # "None" THEN <<>>
                          ELSE quantile_alerts
    /\ result' = Called("clear_alert_cache") @@ [raised |-> ""]
    /\ UNCHANGED <<alert_service, config, app_utils, df, percentile>>

GetAlertSummaryStats(subject_ids) ==
    LET r == get_alert_summary_stats(subject_ids) IN
    /\ cache' = [cache EXCEPT !.slot = r.slot]
    /\ result' = Called("get_alert_summary_stats")
                 @@ [subject_ids |-> subject_ids, raised |-> r.raised,
                     value |-> r.value]
    /\ UNCHANGED <<alert_service, config, quantile_alerts, app_utils, df,
                   percentile>>

FilterByAlertCategory(alert_category) ==
    LET r == filter_by_alert_category(df, alert_category) IN
    /\ result' = Called("filter_by_alert_category")
                 @@ [alert_category |-> alert_category, df |-> df,
                     raised |-> r.raised, value |-> r.value]
    /\ UNCHANGED <<alert_service, config, quantile_alerts, cache, app_utils,
                   df, percentile>>

AggregateAlertCategories ==
    LET r == aggregate_alert_categories(df) IN
    /\ result' = Called("aggregate_alert_categories")
                 @@ [df |-> df, raised |-> r.raised, value |-> r.value]
    /\ UNCHANGED <<alert_service, config, quantile_alerts, cache, app_utils,
                   df, percentile>>

FilterCategories == {"all", "T", "NS", "SB", "B", "N", "G", "SG"}

(***************************************************************************)
(* SpecFacade: the facade from construction on, over a few worlds the      *)
(* collaborators can be in and change between.                             *)
(***************************************************************************)
AllColumns ==
    {"subject_id", "percentile_category", "threshold_alert"}
    \cup {AlertColumns[i] : i \in 1..Len(AlertColumns)}

Row(subject_id, category, threshold_alert, total, stage, water) ==
    [subject_id |-> subject_id, percentile_category |-> category,
     overall_percentile_category |-> category,
     threshold_alert |-> threshold_alert, total_sessions_alert |-> total,
     stage_sessions_alert |-> stage, water_day_total_alert |-> water]

TotalMarker == "T | Total sessions: 45 > 40"
StageMarker == "T | STAGE_2: 6 > 5"
WaterMarker == "T | Water day total: 3.6 > 3.5ml"

WorldA ==
    [QuietWorld EXCEPT
        !.sessions = [s \in Subjects |->
                         IF s = 1 THEN QuietRow ELSE FiringRow],
        !.session_percentiles = [s \in Subjects |->
                                    IF s = 1 THEN HighPctRow ELSE NoPctRow]]
WorldB ==
    [WorldA EXCEPT
        !.off_curriculum = {1},
        !.comprehensive = [s \in Subjects |->
                              IF s = 1 THEN LowCompRow ELSE NoCompRow]]
WorldC == [WorldA EXCEPT !.analyzers = FALSE]

FacadeWorlds == {WorldA, WorldB, WorldC}

FacadeDatasets ==
    { [columns |-> AllColumns, rows |-> <<>>],
      [columns |-> AllColumns,
       rows |-> << Row(1, "N", "T", TotalMarker, "N", "N"),
                   Row(2, "NS", "N", "N", "N", "N") >>] }

InitFacade ==
    /\ alert_service = "None"
    /\ config = service_config(NoConfig)
    /\ quantile_alerts = <<>>
    /\ cache \in {NoCache, [NoCache EXCEPT !.manager = FALSE]}
    /\ app_utils \in FacadeWorlds
    /\ df \in FacadeDatasets
    /\ percentile = PNone
    /\ result = NoResult

\* the collaborators load new data
ReloadData ==
    /\ app_utils' \in FacadeWorlds
    /\ result' = Called("reload_data")
    /\ UNCHANGED <<alert_service, config, quantile_alerts, cache, df,
                   percentile>>

FacadeCalculateQuantileAlerts ==
    /\ alert_service # "None"
    /\ CalculateQuantileAlerts(NoIds)

NextFacade ==
    \/ \E c \in ConfigChoices : InitializeAlertService(c)
    \/ \E subject_ids \in IdChoices : GetQuantileAlerts(subject_ids)
    \/ \E subject_ids \in IdChoices, use_cache \in BOOLEAN :
          GetUnifiedAlerts(subject_ids, use_cache)
    \/ ClearAlertCache
    \/ \E subject_ids \in IdChoices : GetAlertSummaryStats(subject_ids)
    \/ \E alert_category \in FilterCategories :
          FilterByAlertCategory(alert_category)
    \/ AggregateAlertCategories
    \/ FacadeCalculateQuantileAlerts
    \/ ReloadData

SpecFacade == InitFacade /\ [][NextFacade]_vars

(***************************************************************************)
(* SpecConfig: validate_alert_configuration over configurations whose      *)
(* category map holds numbers up to MaxThreshold, with up to MaxDefects    *)
(* keys absent or non-numeric, on a facade before and after initialize.    *)
(***************************************************************************)
NumericMaps ==
    [CategoryKeys -> {[kind |-> "num", v |-> n] : n \in 1..MaxThreshold}]

\* the keys of a numeric map that are dropped or made non-numeric
Defects ==
    UNION {[keys -> {"missing", "str"}] :
             keys \in {S \in SUBSET CategoryKeys : Cardinality(S) <= MaxDefects}}

Damaged(base, defect) ==
    [key \in {k \in CategoryKeys :
                k \notin DOMAIN defect \/ defect[k] # "missing"} |->
        IF key \in DOMAIN defect THEN [kind |-> "str", v |-> 0] ELSE base[key]]

ValidationConfigs ==
    { [has_pc |-> TRUE, pc |-> Damaged(base, defect), feature_config |-> f] :
        base \in NumericMaps, defect \in Defects,
        f \in {"absent", "dict", "list"} }
    \cup { [has_pc |-> FALSE, pc |-> <<>>, feature_config |-> f] :
             f \in {"absent", "dict", "list"} }

ValidateAlertConfiguration(c) ==
    /\ result' = Called("validate_alert_configuration")
                 @@ [config |-> c, raised |-> "",
                     config_before |-> config,
                     value |-> validate_alert_configuration(c)]
    /\ UNCHANGED <<alert_service, config, quantile_alerts, cache, app_utils,
                   df, percentile>>

InitConfig ==
    /\ alert_service = "None"
    /\ config = service_config(NoConfig)
    /\ quantile_alerts = <<>>
    /\ cache = NoCache
    /\ app_utils = QuietWorld
    /\ df = NoDf
    /\ percentile = PNone
    /\ result = NoResult

NextConfig ==
    \/ InitializeAlertService(NoConfig)
    \/ \E c \in ValidationConfigs : ValidateAlertConfiguration(c)

SpecConfig == InitConfig /\ [][NextConfig]_vars

(***************************************************************************)
(* SpecReason: AlertService.get_not_scored_reason for every subject, on a  *)
(* service constructed with each configuration, over session data in which *)
(* a subject has no sessions or three of them with the most recent one     *)
(* lacking some of its fields.                                             *)
(***************************************************************************)
ReasonRows ==
    {NoSessions}
    \cup { [QuietRow EXCEPT !.finished_trials = f, !.total_trials = t,
                            !.ignore_rate = i] :
             f \in {NA, 0, 100}, t \in {NA, 120}, i \in {NA, 1} }

ReasonWorlds ==
    { [QuietWorld EXCEPT !.session_fails = fails, !.sessions = sessions] :
        fails \in BOOLEAN, sessions \in [Subjects -> ReasonRows] }

GetNotScoredReason(subject_id) ==
    /\ alert_service # "None"
    /\ result' = Called("get_not_scored_reason")
                 @@ [subject_id |-> subject_id, raised |-> "",
                     value |-> get_not_scored_reason(subject_id)]
    /\ UNCHANGED <<alert_service, config, quantile_alerts, cache, app_utils,
                   df, percentile>>

InitReason ==
    /\ alert_service = "None"
    /\ config = service_config(NoConfig)
    /\ quantile_alerts = <<>>
    /\ cache = NoCache
    /\ app_utils \in ReasonWorlds
    /\ df = NoDf
    /\ percentile = PNone
    /\ result = NoResult

NextReason ==
    \/ \E c \in ConfigChoices : InitializeAlertService(c)
    \/ \E subject_id \in Subjects : GetNotScoredReason(subject_id)

SpecReason == InitReason /\ [][NextReason]_vars

(***************************************************************************)
(* SpecBuilder: calculate_quantile_alerts over session-percentile sources  *)
(* whose rows have the overall percentile missing or present and each      *)
(* feature percentile missing or present.                                  *)
(***************************************************************************)
BuilderRows ==
    {NoPctRow}
    \cup { [present |-> TRUE, overall |-> o, features |-> fs] :
             o \in {PNaN, Num(10), Num(190)},
             fs \in [Features -> {PNaN, Num(120)}] }

BuilderWorlds ==
    { [QuietWorld EXCEPT !.analyzers = a, !.session_percentiles = pcts] :
        a \in BOOLEAN, pcts \in [Subjects -> BuilderRows] }

InitBuilder ==
    /\ alert_service = "AlertService"
    /\ config = service_config(NoConfig)
    /\ quantile_alerts = <<>>
    /\ cache = NoCache
    /\ app_utils \in BuilderWorlds
    /\ df = NoDf
    /\ percentile = PNone
    /\ result = NoResult

NextBuilder ==
    \E subject_ids \in IdChoices : CalculateQuantileAlerts(subject_ids)

SpecBuilder == InitBuilder /\ [][NextBuilder]_vars

(***************************************************************************)
(* UIDataManager.map_percentile_to_category: the classifier of the UI      *)
(* layer, with its boundaries written into the code (6.5, 28, 72, 93.5,    *)
(* here in half-percents).                                                 *)
(***************************************************************************)
\* p <= t for a boundary t given in half-percents
LessEq(p, t) == p.n <= t * p.d

ui_map_percentile_to_category_Mut(p) ==
    IF IsMissing(p) THEN "NS"
    ELSE IF Less(p, 13) THEN "SB"
    ELSE IF Less(p, 56) THEN "B"
    ELSE IF Less(p, 144) THEN "N"
    ELSE IF LessEq(p, 187) THEN "G"
    ELSE "SG"

ui_map_percentile_to_category(p) ==
    IF IsMissing(p) THEN "NS"
    ELSE IF Less(p, 13) THEN "SB"
    ELSE IF Less(p, 56) THEN "B"
    ELSE IF LessEq(p, 144) THEN "N"
    ELSE IF LessEq(p, 187) THEN "G"
    ELSE "SG"

(***************************************************************************)
(* SpecUI: one percentile classified by the UI layer and by the service,   *)
(* under every configuration an AlertService can be constructed with.      *)
(***************************************************************************)
UIMapPercentileToCategory ==
    /\ result' = [op |-> "ui_map_percentile_to_category", arg |-> percentile,
                  raised |-> FALSE,
                  value |-> ui_map_percentile_to_category(percentile)]
    /\ UNCHANGED <<alert_service, config, quantile_alerts, cache, app_utils,
                   df, percentile>>

InitUI == InitClassify

NextUI == UIMapPercentileToCategory \/ MapPercentileToCategory

SpecUI == InitUI /\ [][NextUI]_vars

(***************************************************************************)
(* SpecConcurrent: NumRequests requests get_unified_alerts(None,           *)
(* use_cache = TRUE) running at once on an initialized facade with a cache *)
(* manager.  A request is at one place of the method (pc): at the test of  *)
(* the slot, at the get, inside the unifier after some of its five steps   *)
(* with the map it has built so far (alerts), at the set, or finished with *)
(* what it returned or with the exception it raised.  The requests are     *)
(* kept in result.requests.                                                *)
(***************************************************************************)
Requests == 1..NumRequests

UnifySteps == 5

\* one step of AlertService.get_unified_alerts on the map built so far
unify_step(step, unified_alerts) ==
    LET quantile_alerts_ == get_quantile_alerts(NoIds)
        threshold_alerts == get_threshold_alerts
        all_subjects == determine_all_subjects(NoIds, quantile_alerts_,
                                               threshold_alerts)
    IN CASE step = 1 ->
              handle_off_curriculum_subjects(all_subjects, unified_alerts)
         [] step = 2 ->
              process_quantile_and_threshold_alerts(
                  quantile_alerts_, threshold_alerts, unified_alerts)
         [] step = 3 -> process_feature_percentiles(unified_alerts, NoIds)
         [] step = 4 -> add_overall_percentiles(all_subjects, unified_alerts)
         [] OTHER ->
              handle_subjects_without_alerts(all_subjects, unified_alerts)

NewRequest ==
    [pc |-> "check", step |-> 0, alerts |-> <<>>, computed |-> FALSE,
     returned |-> <<>>, raised |-> ""]

SetRequest(p, req) ==
    result' = [result EXCEPT !.requests[p] = req]

\* lines 85-92: the test of the slot
CheckSlot(p) ==
    LET req == result.requests[p] IN
    /\ req.pc = "check"
    /\ SetRequest(p, [req EXCEPT
                         !.pc = IF use_cached_slot(NoIds, TRUE)
                                THEN "get" ELSE "unify"])
    /\ UNCHANGED <<alert_service, config, quantile_alerts, cache, app_utils,
                   df, percentile>>

\* line 92: return self.cache_manager.get("unified_alerts")
GetSlot(p) ==
    LET req == result.requests[p] IN
    /\ req.pc = "get"
    /\ SetRequest(p, [req EXCEPT !.pc = "done", !.returned = CacheGet])
    /\ UNCHANGED <<alert_service, config, quantile_alerts, cache, app_utils,
                   df, percentile>>

slot_during_unify_Mut(unified_alerts) == CacheSet(unified_alerts)

\* the unifier builds its map in a dict of its own and has no access to the
\* cache manager
slot_during_unify(unified_alerts) == cache.slot

\* line 95: alerts = self.alert_service.get_unified_alerts(subject_ids)
Unify(p) ==
    LET req == result.requests[p] IN
    /\ req.pc = "unify"
    /\ IF ~validate_analyzer
       THEN /\ SetRequest(p, [req EXCEPT !.pc = "done",
                                         !.raised = "ValueError"])
            /\ cache' = cache
       ELSE LET alerts == unify_step(req.step + 1, req.alerts) IN
            /\ SetRequest(p, [req EXCEPT
                                 !.step = @ + 1,
                                 !.alerts = alerts,
                                 !.computed = TRUE,
                                 !.pc = IF req.step + 1 = UnifySteps
                                        THEN "set" ELSE "unify"])
            /\ cache' = [cache EXCEPT !.slot = slot_during_unify(alerts)]
    /\ UNCHANGED <<alert_service, config, quantile_alerts, app_utils, df,
                   percentile>>

\* lines 98-101: self.cache_manager.set("unified_alerts", alerts); return
SetSlot(p) ==
    LET req == result.requests[p] IN
    /\ req.pc = "set"
    /\ cache' = [cache EXCEPT !.slot = IF store_in_slot(NoIds)
                                       THEN CacheSet(req.alerts) ELSE @]
    /\ SetRequest(p, [req EXCEPT !.pc = "done", !.returned = req.alerts])
    /\ UNCHANGED <<alert_service, config, quantile_alerts, app_utils, df,
                   percentile>>

InitConcurrent ==
    /\ alert_service = "AlertService"
    /\ config = service_config(NoConfig)
    /\ app_utils \in FacadeWorlds \cup {w \in UnifyWorlds :
                                          /\ w.analyzers
                                          /\ ~w.session_fails
                                          /\ ~w.features_fail
                                          /\ w.off_curriculum = {1}
                                          /\ w.sessions[1] = NoSessions}
    /\ quantile_alerts \in
          {<<>>,
           [s \in get_session_overall_percentiles(NoIds) |->
               quantile_record(s)]}
    /\ cache \in {NoCache,
                  [NoCache EXCEPT !.slot =
                      CacheSet(service_get_unified_alerts(NoIds).value)]}
    /\ df = NoDf
    /\ percentile = PNone
    /\ result = [op |-> "concurrent",
                 requests |-> [p \in Requests |-> NewRequest]]

NextConcurrent ==
    \E p \in Requests : CheckSlot(p) \/ GetSlot(p) \/ Unify(p) \/ SetSlot(p)

SpecConcurrent == InitConcurrent /\ [][NextConcurrent]_vars

(***************************************************************************)
(* SpecDataset: filter_by_alert_category and aggregate_alert_categories    *)
(* over datasets of up to MaxRows rows, on a facade with and without an    *)
(* alert service.  The rows vary in category (a NaN cell included), in the *)
(* aggregate threshold flag and in the annotations; the column variants    *)
(* are the columns the dashboard builds, the same with the category under  *)
(* its other name, and datasets lacking the columns the masks read.        *)
(***************************************************************************)
RowShapes ==
    { Row(0, "N", "N", "N", "N", "N"),
      Row(0, "N", "T", TotalMarker, "N", "N"),
      Row(0, "G", "N", "N", StageMarker, "N"),
      Row(0, "SG", "N", "N", "N", WaterMarker),
      Row(0, "NS", "T", "N", "N", "N"),
      Row(0, "SB", "N", "N", "N", "N"),
      Row(0, "B", "T", "N", StageMarker, WaterMarker),
      Row(0, "nan", "N", "nan", "nan", "nan"),
      Row(0, "nan", "T", TotalMarker, "N", "N") }

ColumnChoices ==
    { AllColumns,
      (AllColumns \ {"percentile_category"})
          \cup {"overall_percentile_category"},
      AllColumns \ {"percentile_category"},
      AllColumns \ {"threshold_alert"},
      {"subject_id", "percentile_category"} }

Datasets ==
    { [columns |-> cols,
       rows |-> [i \in DOMAIN shapes |-> [shapes[i] EXCEPT !.subject_id = i]]] :
        cols \in ColumnChoices,
        shapes \in UNION {[1..n -> RowShapes] : n \in 0..MaxRows} }

InitDataset ==
    /\ alert_service = "None"
    /\ config = service_config(NoConfig)
    /\ quantile_alerts = <<>>
    /\ cache = NoCache
    /\ app_utils = QuietWorld
    /\ df \in Datasets
    /\ percentile = PNone
    /\ result = NoResult

NextDataset ==
    \/ InitializeAlertService(NoConfig)
    \/ \E alert_category \in FilterCategories :
          FilterByAlertCategory(alert_category)
    \/ AggregateAlertCategories

SpecDataset == InitDataset /\ [][NextDataset]_vars

(***************************************************************************)
(* C1: every subject of the off-curriculum registry that is in the subject *)
(* set has, in the map get_unified_alerts returns, alert_category NS and   *)
(* no overall percentile, whatever the session-percentile source and the   *)
(* feature enrichment supply for it.                                       *)
(***************************************************************************)
Returned(op) == result.op = op /\ result.raised = ""

SubjectSet(subject_ids) ==
    IF subject_ids.given THEN subject_ids.ids
    ELSE (DOMAIN quantile_alerts) \cup (DOMAIN get_threshold_alerts)
         \cup SessionSubjects

C1_OffCurriculumAlwaysNS ==
    Returned("get_unified_alerts") =>
        \A s \in app_utils.off_curriculum \cap SubjectSet(result.subject_ids) :
            /\ s \in DOMAIN result.value
            /\ result.value[s].alert_category = "NS"
            /\ IsMissing(result.value[s].overall_percentile)

(***************************************************************************)
(* C2: the keys of the map get_unified_alerts returns are exactly the      *)
(* subject set: the requested ids when a list is given, else the union of  *)
(* the quantile keys, the threshold keys and the subjects of the session   *)
(* data; each subject has one alert_category of SB, B, N, G, SG, NS.       *)
(***************************************************************************)
C2_KeysAreSubjectSet ==
    Returned("get_unified_alerts") =>
        /\ DOMAIN result.value = SubjectSet(result.subject_ids)
        /\ \A s \in DOMAIN result.value :
              result.value[s].alert_category \in CategoryKeys \cup {"NS"}

(***************************************************************************)
(* C3: for every non-empty dataset the counts aggregate_alert_categories   *)
(* returns (NS, SB, B, N, G, SG, T and the Unknown bucket) sum to the      *)
(* number of rows of the dataset.                                          *)
(***************************************************************************)
C3_CountsSumToRows ==
    (Returned("aggregate_alert_categories") /\ Len(result.df.rows) > 0) =>
        SumCounts(result.value, DOMAIN result.value) = Len(result.df.rows)

(***************************************************************************)
(* C7: a get_unified_alerts call with an explicit id list never returns    *)
(* the cached slot, for either value of use_cache: what it returns is      *)
(* computed by the unifier from the current data; and the call leaves the  *)
(* cache slot as it found it, empty or filled.                             *)
(***************************************************************************)
C7_IdScopedBypassesSlot ==
    (result.op = "get_unified_alerts" /\ result.subject_ids.given) =>
        /\ cache.slot = result.slot_before
        /\ result.served # "cache"
        /\ result.raised = "" =>
              /\ result.served = "computed"
              /\ result.value =
                     service_get_unified_alerts(result.subject_ids).value

\* an id-scoped request with use_cache set, made while the slot is filled
\* with a different map
C7_Witness ==
    /\ Returned("get_unified_alerts")
    /\ result.subject_ids.given
    /\ result.use_cache
    /\ result.slot_before # <<>>
    /\ result.slot_before[1] # result.value
    /\ cache.slot = result.slot_before

(***************************************************************************)
(* C8: after any initialize_alert_service call the cache slot is empty.    *)
(* A get_unified_alerts(None, use_cache = TRUE) that follows a              *)
(* re-initialize recomputes and never returns a map cached before it.      *)
(***************************************************************************)
FullRequestAfter(op) ==
    /\ result.op = "get_unified_alerts"
    /\ result.prev = op
    /\ ~result.subject_ids.given
    /\ result.use_cache

C8_InitializeClearsSlot ==
    /\ result.op = "initialize_alert_service" => cache.slot = <<>>
    /\ FullRequestAfter("initialize_alert_service") => result.served # "cache"

(***************************************************************************)
(* C9: after clear_alert_cache the cache slot holds no unified-alert       *)
(* result: the next get_unified_alerts(None, use_cache = TRUE) recomputes  *)
(* instead of returning the map cached before the clear.                   *)
(***************************************************************************)
C9_ClearEmptiesSlot ==
    /\ result.op = "clear_alert_cache" => cache.slot = <<>>
    /\ FullRequestAfter("clear_alert_cache") => result.served # "cache"

(***************************************************************************)
(* C10: while initialize_alert_service has not been called,                *)
(* get_unified_alerts, get_quantile_alerts, filter_by_alert_category (on a *)
(* non-empty dataset, for a category other than "all"),                    *)
(* aggregate_alert_categories and get_alert_summary_stats raise a usage    *)
(* error, and the cache slot is left unchanged.                            *)
(* As amended: get_unified_alerts, get_quantile_alerts and                 *)
(* filter_by_alert_category raise the usage error;                         *)
(* aggregate_alert_categories returns the plain value counts of the        *)
(* category column and get_alert_summary_stats returns an error record     *)
(* with total_subjects 0, neither raising; the slot is unchanged by all.   *)
(***************************************************************************)
BeforeInitialize(op) ==
    /\ result.op = op
    /\ result.service_before = "None"
    /\ op = "filter_by_alert_category" =>
          (Len(result.df.rows) > 0 /\ result.alert_category # "all")
    /\ op = "aggregate_alert_categories" => Len(result.df.rows) > 0

UsageErrorOps ==
    {"get_unified_alerts", "get_quantile_alerts", "filter_by_alert_category"}
FallbackOps == {"aggregate_alert_categories", "get_alert_summary_stats"}

C10_AllRaiseBeforeInitialize ==
    \A op \in UsageErrorOps \cup FallbackOps :
        BeforeInitialize(op) =>
            (result.raised # "" /\ cache.slot = result.slot_before)

C10_UsageErrorOrFallback ==
    /\ \A op \in UsageErrorOps :
          BeforeInitialize(op) =>
              (result.raised = "ValueError" /\ cache.slot = result.slot_before)
    /\ BeforeInitialize("aggregate_alert_categories") =>
          /\ result.raised = ""
          /\ cache.slot = result.slot_before
          /\ LET rows == result.df.rows
                 col == percentile_col(result.df)
             IN /\ DOMAIN result.value = {rows[i][col] : i \in 1..Len(rows)}
                /\ \A c \in DOMAIN result.value :
                      result.value[c] =
                          Cardinality({i \in 1..Len(rows) : rows[i][col] = c})
    /\ BeforeInitialize("get_alert_summary_stats") =>
          /\ result.raised = ""
          /\ cache.slot = result.slot_before
          /\ result.value.error = "Alert service not initialized"
          /\ result.value.total_subjects = 0
          /\ result.value.category_counts = <<>>

\* each of the five operations is called before initialize
C10_Witness ==
    /\ BeforeInitialize("aggregate_alert_categories")
    /\ result.raised = ""
    /\ DOMAIN result.value # {}

(***************************************************************************)
(* C11: when the comprehensive feature-percentile collaborator raises      *)
(* during get_unified_alerts (the other collaborators working), the call   *)
(* does not abort: it returns a map that holds every subject of the        *)
(* subject set.                                                            *)
(***************************************************************************)
OnlyFeaturesFail ==
    /\ app_utils.features_fail
    /\ app_utils.analyzers
    /\ ~app_utils.session_fails
    /\ ~app_utils.overall_fails

C11_FeatureFailureDoesNotAbort ==
    (result.op = "get_unified_alerts" /\ OnlyFeaturesFail) =>
        /\ result.raised = ""
        /\ SubjectSet(result.subject_ids) \subseteq DOMAIN result.value

Filtered(c) ==
    result.op = "filter_by_alert_category" /\ result.alert_category = c

C13_AllIsIdentity ==
    /\ Filtered("all") => (result.raised = "" /\ result.value = result.df)
    /\ result.op = "filter_by_alert_category" => df = result.df

\* "all" on a non-empty dataset before any initialize
C13_Witness ==
    /\ Filtered("all")
    /\ result.service_before = "None"
    /\ Len(result.df.rows) = MaxRows
    /\ result.value = df

(***************************************************************************)
(* C14: on an initialized facade and a dataset that has the category       *)
(* column and the four alert columns, filter_by_alert_category(df, c)      *)
(* returns exactly the rows the category selects, in order: for "T" the    *)
(* rows whose threshold_alert is T or one of whose three annotations       *)
(* contains the T marker, whatever their percentile category; for NS, SB,  *)
(* B, N, G, SG the rows whose category cell equals c.  Filtering the       *)
(* result again by c returns it unchanged.                                 *)
(***************************************************************************)
HasMaskColumns(d) ==
    /\ percentile_col(d) \in d.columns
    /\ "threshold_alert" \in d.columns
    /\ \A i \in 1..Len(AlertColumns) : AlertColumns[i] \in d.columns

InCategory(d, row, c) ==
    IF c = "T"
    THEN \/ row.threshold_alert = "T"
         \/ \E i \in 1..Len(AlertColumns) :
               Contains(row[AlertColumns[i]], "T |")
    ELSE row[percentile_col(d)] = c

MaskCount(d, c) ==
    IF get_alert_category_mask(d, c).raised # "" THEN 0
    ELSE MaskSum(get_alert_category_mask(d, c).mask)

MaskTotal(d) ==
    LET cats == {StandardCategories[i] : i \in 1..Len(StandardCategories)}
                \cup {"T"}
    IN SumCounts([c \in cats |-> MaskCount(d, c)], cats)

C15_UnknownIsShortfall ==
    (/\ Returned("aggregate_alert_categories")
     /\ result.service_before = "AlertService"
     /\ Len(result.df.rows) > 0) =>
        IF MaskTotal(result.df) < Len(result.df.rows)
        THEN /\ "Unknown" \in DOMAIN result.value
             /\ result.value["Unknown"]
                    = Len(result.df.rows) - MaskTotal(result.df)
        ELSE "Unknown" \notin DOMAIN result.value

\* two rows of which the masks cover one
C15_Witness ==
    /\ Returned("aggregate_alert_categories")
    /\ result.service_before = "AlertService"
    /\ Len(result.df.rows) = 2
    /\ HasMaskColumns(result.df)
    /\ DOMAIN result.value = {"N", "Unknown"}
    /\ result.value["Unknown"] = 1

(***************************************************************************)
(* C16: validate_alert_configuration returns valid = FALSE, with a         *)
(* non-empty errors list, if and only if the configuration has a           *)
(* percentile_categories map that lacks one of SB, B, N, G, SG or holds a  *)
(* non-numeric value for one, or has a feature_config that is not a dict;  *)
(* a configuration without percentile_categories is not checked for the    *)
(* keys.  A map with all five keys numeric but not in non-decreasing order *)
(* yields exactly one warning and no category error (valid = TRUE when     *)
(* feature_config is acceptable); a map in order yields no warning.  The   *)
(* call changes neither the alert service, its configuration nor the cache *)
(* slot.                                                                   *)
(***************************************************************************)
BadCategories(c) ==
    /\ c.has_pc
    /\ \E key \in CategoryKeys :
          key \notin DOMAIN c.pc \/ c.pc[key].kind # "num"

BadFeatureConfig(c) == c.feature_config \notin {"absent", "dict"}

OutOfOrder(c) ==
    /\ c.has_pc
    /\ ~BadCategories(c)
    /\ \E i, j \in 1..Len(CategoryOrder) :
          i < j /\ c.pc[CategoryOrder[i]].v > c.pc[CategoryOrder[j]].v

ValidationLeavesState ==
    /\ result.raised = ""
    /\ alert_service = result.service_before
    /\ config = result.config_before
    /\ cache.slot = result.slot_before

C16_ValidationVerdict ==
    result.op = "validate_alert_configuration" =>
        LET c == result.config
            v == result.value
        IN /\ ~v.valid <=> (BadCategories(c) \/ BadFeatureConfig(c))
           /\ ~v.valid <=> v.errors # <<>>
           /\ (OutOfOrder(c) /\ ~BadFeatureConfig(c)) =>
                 (v.valid /\ Len(v.warnings) = 1 /\ v.errors = <<>>)
           /\ (OutOfOrder(c) /\ BadFeatureConfig(c)) =>
                 (Len(v.warnings) = 1 /\ Len(v.errors) = 1)
           /\ ~OutOfOrder(c) => v.warnings = <<>>
           /\ ValidationLeavesState

\* a configuration without percentile_categories passes on an initialized
\* facade
C16_Witness ==
    /\ result.op = "validate_alert_configuration"
    /\ ~result.config.has_pc
    /\ result.config.feature_config = "dict"
    /\ result.value = [valid |-> TRUE, warnings |-> <<>>, errors |-> <<>>]
    /\ result.service_before = "AlertService"

\* C16 as stated: a key counts as missing whenever the configuration does
\* not hold it, with or without a percentile_categories map.
KeyMissingOrNonNumeric(c) ==
    \E key \in CategoryKeys :
        \/ ~c.has_pc
        \/ key \notin DOMAIN c.pc
        \/ c.pc[key].kind # "num"

C16_MissingKeyIffInvalid ==
    result.op = "validate_alert_configuration" =>
        LET c == result.config
            v == result.value
        IN /\ (~v.valid /\ v.errors # <<>>)
                 <=> (KeyMissingOrNonNumeric(c) \/ BadFeatureConfig(c))
           /\ (OutOfOrder(c) /\ ~BadFeatureConfig(c)) =>
                 (v.valid /\ Len(v.warnings) = 1 /\ v.errors = <<>>)
           /\ ~OutOfOrder(c) => v.warnings = <<>>
           /\ ValidationLeavesState

(***************************************************************************)
(* C17: on a service constructed with a configuration, with the session    *)
(* data readable and holding a session of at least one subject,            *)
(* get_not_scored_reason answers by the first matching case of: no         *)
(* sessions of the subject, "Subject not found"; fewer sessions than the   *)
(* min_sessions of the configuration, "Insufficient sessions: {n} < {min}";*)
(* finished_trials of the most recent session missing or zero, "No         *)
(* finished trials"; one of total_trials, finished_trials, ignore_rate     *)
(* missing, "Missing features: ..."; otherwise "Scoring criteria not met". *)
(* Three sessions under min_sessions = 5 give "Insufficient sessions:      *)
(* 3 < 5".                                                                 *)
(***************************************************************************)
ConfiguredMinimum(c) ==
    IF c.given /\ c.has_min THEN c.min_sessions ELSE DEFAULT_MIN_SESSIONS

ReasonTree(min_sessions, row) ==
    IF row.n = 0 THEN "Subject not found"
    ELSE IF row.n < min_sessions
    THEN "Insufficient sessions: " \o ToString(row.n)
         \o " < " \o ToString(min_sessions)
    ELSE IF row.finished_trials = NA \/ row.finished_trials = 0
    THEN "No finished trials"
    ELSE IF row.total_trials = NA \/ row.ignore_rate = NA
    THEN "Missing features: "
         \o JoinMissing(row.total_trials = NA, FALSE, row.ignore_rate = NA)
    ELSE "Scoring criteria not met"

C17_ReasonTreeUsesMinSessions ==
    [][(/\ result.op = "initialize_alert_service"
        /\ result'.op = "get_not_scored_reason"
        /\ ~app_utils.session_fails
        /\ SessionSubjects # {})
       => result'.value =
             ReasonTree(ConfiguredMinimum(result.config),
                        app_utils.sessions[result'.subject_id])]_vars

(***************************************************************************)
(* C18: get_not_scored_reason never raises; when the session data cannot   *)
(* be read it returns a string that embeds the message of the failure, and *)
(* every call returns a non-empty string.                                  *)
(***************************************************************************)
C18_ReasonNeverRaises ==
    result.op = "get_not_scored_reason" =>
        /\ result.raised = ""
        /\ result.value # ""
        /\ app_utils.session_fails =>
              \E prefix \in {"Error determining reason: "} :
                  result.value = prefix \o SessionFailure

C18_Witness ==
    /\ result.op = "get_not_scored_reason"
    /\ app_utils.session_fails
    /\ result.value = "Error determining reason: session data unavailable"

(***************************************************************************)
(* C19: every get_quantile_alerts request on an initialized facade with    *)
(* analyzers answers from the session-percentile source as it is at the    *)
(* time of the request: a requested subject with a percentile in the       *)
(* source has, in the answer, the quantile record computed from the        *)
(* source's current row, also on the first request after initialize and    *)
(* after the source changed.                                               *)
(***************************************************************************)
Requested(subject_ids) ==
    IF subject_ids.given THEN subject_ids.ids ELSE Subjects

C19_QuantileRecordsFresh ==
    (/\ result.op = "get_quantile_alerts"
     /\ result.raised = ""
     /\ app_utils.analyzers
     /\ ~app_utils.overall_fails)
    => \A s \in Requested(result.subject_ids) :
          (/\ app_utils.session_percentiles[s].present
           /\ ~IsMissing(app_utils.session_percentiles[s].overall))
          => /\ s \in DOMAIN result.value
             /\ result.value[s] = quantile_record(s)

(***************************************************************************)
(* C20: every alert of a map get_unified_alerts returns whose              *)
(* alert_category is NS carries a non-empty ns_reason; and when the        *)
(* session-level overall-percentile source fails during the call (the      *)
(* other collaborators working) the call still returns its map, in which   *)
(* every subject without a feature mean is NS with a reason.               *)
(***************************************************************************)
OnlyOverallFails ==
    /\ app_utils.overall_fails
    /\ app_utils.analyzers
    /\ ~app_utils.session_fails
    /\ ~app_utils.features_fail

\* the comprehensive data give the subject a mean of feature percentiles
HasFeatureMean(s, subject_ids) ==
    /\ app_utils.comprehensive[s].present
    /\ app_utils.comprehensive[s].is_current
    /\ subject_ids.given => s \in subject_ids.ids
    /\ \E f \in Features : ~IsMissing(app_utils.comprehensive[s].values[f])

HasReason(alert) == "ns_reason" \in alert.keys /\ alert.ns_reason # ""

C20_NSCarriesReason ==
    result.op = "get_unified_alerts" =>
        /\ result.raised = "" =>
              \A s \in DOMAIN result.value :
                  result.value[s].alert_category = "NS"
                  => HasReason(result.value[s])
        /\ OnlyOverallFails =>
              /\ result.raised = ""
              /\ \A s \in DOMAIN result.value :
                    ~HasFeatureMean(s, result.subject_ids) =>
                        /\ result.value[s].alert_category = "NS"
                        /\ HasReason(result.value[s])

\* the source fails for a subject it holds a percentile of: NS with a reason
C20_Witness ==
    /\ result.op = "get_unified_alerts"
    /\ OnlyOverallFails
    /\ result.raised = ""
    /\ \E s \in DOMAIN result.value :
          /\ ~IsMissing(app_utils.session_percentiles[s].overall)
          /\ s \notin app_utils.off_curriculum
          /\ result.value[s].alert_category = "NS"
          /\ HasReason(result.value[s])

(***************************************************************************)
(* C21: every threshold rule compares with strict greater-than:            *)
(* total_sessions has alert T exactly when the session count is above 40   *)
(* (40 gives N), water_day_total exactly when the water volume of the most *)
(* recent session is above 3.5 (3.5 gives N), stage_sessions exactly when  *)
(* the count of sessions in the stage is above the stage's table value;    *)
(* the description of a rule is empty exactly when its alert is N.  With   *)
(* 45 sessions, water 2.0 and 6 sessions in STAGE_2 the record has         *)
(* total_sessions T, stage_sessions T, water_day_total N and aggregate T.  *)
(***************************************************************************)
C21_StrictGreaterThan ==
    result.op = "get_threshold_alerts" =>
        \A s \in DOMAIN result.value :
            LET row == app_utils.sessions[s]
                sa == result.value[s].specific_alerts
            IN /\ sa["total_sessions"].alert = "T" <=> row.session > 40
               /\ sa["water_day_total"].alert = "T"
                     <=> (row.water_day_total # NA /\ row.water_day_total > 35)
               /\ "stage_sessions" \in DOMAIN sa =>
                     (sa["stage_sessions"].alert = "T"
                        <=> row.stage_n > sa["stage_sessions"].threshold)
               /\ \A rule \in DOMAIN sa :
                     /\ sa[rule].alert \in {"T", "N"}
                     /\ sa[rule].description = "" <=> sa[rule].alert = "N"
               /\ (/\ row.session = 45 /\ row.water_day_total = 20
                   /\ row.current_stage_actual = "STAGE_2" /\ row.stage_n = 6)
                  => /\ sa["total_sessions"].alert = "T"
                     /\ sa["stage_sessions"].alert = "T"
                     /\ sa["water_day_total"].alert = "N"
                     /\ result.value[s].threshold_alert = "T"

\* exactly 40 sessions and exactly 3.5 of water: neither rule fires
C21_Witness ==
    /\ result.op = "get_threshold_alerts"
    /\ 1 \in DOMAIN result.value
    /\ app_utils.sessions[1].session = 40
    /\ app_utils.sessions[1].water_day_total = 35
    /\ result.value[1].specific_alerts["total_sessions"].alert = "N"
    /\ result.value[1].specific_alerts["water_day_total"].alert = "N"

(***************************************************************************)
(* C22: the stage_sessions rule is in a subject's threshold record exactly *)
(* when the subject's current stage is a key of the table STAGE_1: 5,      *)
(* STAGE_2: 5, STAGE_3: 6, STAGE_4: 10, STAGE_FINAL: 10, GRADUATED: 20;    *)
(* when present its threshold is the table value of the stage and its      *)
(* value is the number of the subject's sessions in that stage; when       *)
(* absent the aggregate flag is T only through one of the other two rules. *)
(***************************************************************************)
StageTable ==
    [st \in {"STAGE_1", "STAGE_2", "STAGE_3", "STAGE_4", "STAGE_FINAL",
             "GRADUATED"} |->
        CASE st \in {"STAGE_1", "STAGE_2"} -> 5
          [] st = "STAGE_3" -> 6
          [] st \in {"STAGE_4", "STAGE_FINAL"} -> 10
          [] OTHER -> 20]

C22_StageRuleIffTableKey ==
    result.op = "get_threshold_alerts" =>
        \A s \in DOMAIN result.value :
            LET row == app_utils.sessions[s]
                rec == result.value[s]
                sa == rec.specific_alerts
            IN /\ "stage_sessions" \in DOMAIN sa
                     <=> row.current_stage_actual \in DOMAIN StageTable
               /\ "stage_sessions" \in DOMAIN sa =>
                     /\ sa["stage_sessions"].threshold
                           = StageTable[row.current_stage_actual]
                     /\ sa["stage_sessions"].value = row.stage_n
                     /\ sa["stage_sessions"].stage = row.current_stage_actual
               /\ "stage_sessions" \notin DOMAIN sa =>
                     (rec.threshold_alert = "T"
                        <=> \/ sa["total_sessions"].alert = "T"
                            \/ sa["water_day_total"].alert = "T")

\* a stage outside the table with many sessions in it: no rule, flag N
C22_Witness ==
    /\ result.op = "get_threshold_alerts"
    /\ 1 \in DOMAIN result.value
    /\ app_utils.sessions[1].current_stage_actual = "STAGE_X"
    /\ app_utils.sessions[1].stage_n = 21
    /\ "stage_sessions" \notin DOMAIN result.value[1].specific_alerts
    /\ result.value[1].threshold_alert = "N"

(***************************************************************************)
(* C23: in the map get_unified_alerts returns, for each subject of the     *)
(* subject set that is not off-curriculum: when the feature enrichment     *)
(* attached at least one feature percentile, overall_percentile is the     *)
(* arithmetic mean of the attached feature percentiles, whatever the       *)
(* session-level value; else it is the session-level overall percentile    *)
(* the source supplies for the subject; else it is missing, alert_category *)
(* is NS and an ns_reason is set.  The key calculated_overall_percentile   *)
(* is never in the record.                                                 *)
(***************************************************************************)
Enriched(alert) ==
    /\ "feature_percentiles" \in alert.keys
    /\ DOMAIN alert.feature_percentiles # {}

IsMeanOf(p, fp) ==
    /\ p.k = "num"
    /\ p.n * Cardinality(DOMAIN fp) = SumPercentiles(fp, DOMAIN fp) * p.d

\* the source answers and holds a percentile for the subject
SessionLevelSupplied(s) ==
    /\ ~app_utils.overall_fails
    /\ app_utils.session_percentiles[s].present
    /\ ~IsMissing(app_utils.session_percentiles[s].overall)

C23_OverallResolution ==
    Returned("get_unified_alerts") =>
        \A s \in ((DOMAIN result.value) \cap SubjectSet(result.subject_ids))
                    \ app_utils.off_curriculum :
            LET alert == result.value[s] IN
            /\ "calculated_overall_percentile" \notin alert.keys
            /\ "overall_percentile" \in alert.keys
            /\ IF Enriched(alert)
               THEN IsMeanOf(alert.overall_percentile,
                             alert.feature_percentiles)
               ELSE IF SessionLevelSupplied(s)
               THEN alert.overall_percentile
                       = app_utils.session_percentiles[s].overall
               ELSE /\ IsMissing(alert.overall_percentile)
                    /\ alert.alert_category = "NS"
                    /\ HasReason(alert)

(***************************************************************************)
(* C24: for every off-curriculum subject of the subject set, the alert in  *)
(* the map get_unified_alerts returns has the default threshold record,    *)
(* threshold_alert N with no specific alerts, also when the rule engine    *)
(* produced a record with threshold_alert T for the subject, and it has no *)
(* quantile record.                                                        *)
(***************************************************************************)
C24_OffCurriculumThresholdDefault ==
    Returned("get_unified_alerts") =>
        \A s \in app_utils.off_curriculum \cap SubjectSet(result.subject_ids) :
            /\ s \in DOMAIN result.value
            /\ "threshold" \in result.value[s].keys
            /\ result.value[s].threshold = DefaultThreshold
            /\ "quantile" \notin result.value[s].keys

\* the engine flags the subject and a quantile record is stored for it
C24_Witness ==
    /\ Returned("get_unified_alerts")
    /\ \E s \in app_utils.off_curriculum \cap SubjectSet(result.subject_ids) :
          /\ s \in DOMAIN get_threshold_alerts
          /\ get_threshold_alerts[s].threshold_alert = "T"
          /\ s \in DOMAIN quantile_alerts
          /\ result.value[s].threshold = DefaultThreshold

(***************************************************************************)
(* C4: in every threshold record the rule engine produces, the aggregate   *)
(* flag threshold_alert is T exactly when at least one of the rules        *)
(* total_sessions, stage_sessions, water_day_total of its specific_alerts  *)
(* has alert T, and N otherwise.                                           *)
(***************************************************************************)
RuleNames == {"total_sessions", "stage_sessions", "water_day_total"}

C4_AggregateIffAnyRule ==
    result.op = "get_threshold_alerts" =>
        \A s \in DOMAIN result.value :
            LET rec == result.value[s]
                any == \E rule \in RuleNames \cap DOMAIN rec.specific_alerts :
                           rec.specific_alerts[rule].alert = "T"
            IN /\ rec.threshold_alert = (IF any THEN "T" ELSE "N")
               /\ DOMAIN rec.specific_alerts \subseteq RuleNames

\* a record whose only firing rule is stage_sessions, and one with no rule firing
C4_Witness ==
    /\ result.op = "get_threshold_alerts"
    /\ 1 \in DOMAIN result.value
    /\ LET sa == result.value[1].specific_alerts IN
          /\ "stage_sessions" \in DOMAIN sa
          /\ sa["stage_sessions"].alert = "T"
          /\ sa["total_sessions"].alert = "N"
          /\ sa["water_day_total"].alert = "N"
    /\ result.value[1].threshold_alert = "T"

(***************************************************************************)
(* C5: for every non-missing percentile and ascending boundaries, both     *)
(* classifier entry points return exactly one of SB, B, N, G, SG, chosen   *)
(* by the first-match chain p<SB, p<B, p<N, p<G, else SG, and the result   *)
(* is monotonic: a lower percentile never gets a higher-ranked category.   *)
(***************************************************************************)
ClassifierOps ==
    {"map_percentile_to_category", "map_overall_percentile_to_category"}

Classify(op, p) ==
    IF op = "map_percentile_to_category"
    THEN map_percentile_to_category(p)
    ELSE map_overall_percentile_to_category(p)

Ascending(c) == c.SB <= c.B /\ c.B <= c.N /\ c.N <= c.G /\ c.G <= c.SG

FirstMatch(p, c) ==
    LET hits == {i \in 1..4 : p.n < c[CategoryOrder[i]] * p.d} IN
    IF hits = {} THEN "SG"
    ELSE CategoryOrder[CHOOSE i \in hits : \A j \in hits : i <= j]

C6_OneSentinel ==
    (result.op \in ClassifierOps /\ IsMissing(result.arg)) =>
        /\ ~result.raised
        /\ result.value \notin CategoryKeys
        /\ \A op \in ClassifierOps : Classify(op, result.arg) = result.value

(***************************************************************************)
(* C25: calculate_quantile_alerts returns one record for every row the     *)
(* session-percentile source gives for the request.  When the row's        *)
(* overall percentile is missing the record has alert_category NS, no      *)
(* overall percentile, an ns_reason and no feature_percentiles key.        *)
(* Otherwise its alert_category is the classifier's answer for the overall *)
(* percentile, and feature_percentiles holds exactly the features whose    *)
(* percentile is present in the row, the key being absent when there is    *)
(* none.                                                                   *)
(***************************************************************************)
PresentFeatures(row) == {f \in Features : ~IsMissing(row.features[f])}

C25_BuilderRecords ==
    (Returned("calculate_quantile_alerts") /\ app_utils.analyzers) =>
        /\ DOMAIN result.value
              = {s \in Requested(result.subject_ids) :
                    app_utils.session_percentiles[s].present}
        /\ \A s \in DOMAIN result.value :
              LET row == app_utils.session_percentiles[s]
                  rec == result.value[s]
              IN IF IsMissing(row.overall)
                 THEN /\ rec.alert_category = "NS"
                      /\ rec.overall_percentile = PNone
                      /\ HasReason(rec)
                      /\ "feature_percentiles" \notin rec.keys
                 ELSE /\ rec.overall_percentile = row.overall
                      /\ rec.alert_category
                            = FirstMatch(row.overall,
                                         config.percentile_categories)
                      /\ "ns_reason" \notin rec.keys
                      /\ "feature_percentiles" \in rec.keys
                            <=> PresentFeatures(row) # {}
                      /\ DOMAIN rec.feature_percentiles = PresentFeatures(row)
                      /\ \A f \in PresentFeatures(row) :
                            /\ rec.feature_percentiles[f].percentile
                                  = row.features[f]
                            /\ rec.feature_percentiles[f].category
                                  = FirstMatch(row.features[f],
                                               config.percentile_categories)

\* one row without overall percentile but with feature percentiles, one row
\* scored with a single feature present
C25_Witness ==
    /\ Returned("calculate_quantile_alerts")
    /\ DOMAIN result.value = Subjects
    /\ IsMissing(app_utils.session_percentiles[1].overall)
    /\ PresentFeatures(app_utils.session_percentiles[1]) = Features
    /\ "feature_percentiles" \notin result.value[1].keys
    /\ ~IsMissing(app_utils.session_percentiles[2].overall)
    /\ Cardinality(PresentFeatures(app_utils.session_percentiles[2])) = 1
    /\ DOMAIN result.value[2].feature_percentiles
          = PresentFeatures(app_utils.session_percentiles[2])

(***************************************************************************)
(* C26: on an initialized facade no failure of building or applying a mask *)
(* leaves filter_by_alert_category or aggregate_alert_categories: the      *)
(* filter raises for no category, "T" included, and returns the dataset it *)
(* was given when the columns the mask reads are absent; the aggregation   *)
(* does not raise.                                                         *)
(***************************************************************************)
MaskReadable(d, alert_category) ==
    IF alert_category = "T"
    THEN \E col \in {"threshold_alert", "total_sessions_alert",
                     "stage_sessions_alert", "water_day_total_alert"} :
            col \in d.columns
    ELSE \/ "overall_percentile_category" \in d.columns
         \/ "percentile_category" \in d.columns

C26_MaskFailureStaysInside ==
    /\ (result.op = "filter_by_alert_category"
        /\ result.service_before # "None") =>
          /\ result.raised = ""
          /\ (result.alert_category # "all"
              /\ ~MaskReadable(result.df, result.alert_category))
             => result.value = result.df
    /\ (result.op = "aggregate_alert_categories") => result.raised = ""

(***************************************************************************)
(* C27: for a get_unified_alerts request without an id list on a facade    *)
(* with a cache manager: with use_cache set and the slot filled the call   *)
(* returns the content of the slot and does not run the unifier; with the  *)
(* slot empty, or with use_cache unset, it runs the unifier and, when that *)
(* completes, overwrites the slot with the map it returns.  Nothing but a  *)
(* completed full computation (get_alert_summary_stats makes its own       *)
(* through get_unified_alerts) writes the slot, so the slot holds the map  *)
(* of the last completed full computation.                                 *)
(***************************************************************************)
FullRequest ==
    /\ result.op = "get_unified_alerts"
    /\ ~result.subject_ids.given
    /\ result.service_before # "None"
    /\ cache.manager

C27_SlotProtocol ==
    /\ FullRequest =>
          IF result.use_cache /\ result.slot_before # <<>>
          THEN /\ result.raised = ""
               /\ result.served = "cache"
               /\ result.value = result.slot_before[1]
               /\ cache.slot = result.slot_before
          ELSE LET r == service_get_unified_alerts(NoIds) IN
               /\ result.raised = r.raised
               /\ IF r.raised = ""
                  THEN /\ result.served = "computed"
                       /\ result.value = r.value
                       /\ cache.slot = <<r.value>>
                  ELSE cache.slot = result.slot_before
    /\ "slot_before" \in DOMAIN result =>
          \/ cache.slot = result.slot_before
          \/ /\ result.op \in {"get_unified_alerts", "get_alert_summary_stats"}
             /\ ~result.subject_ids.given
             /\ cache.slot = <<service_get_unified_alerts(NoIds).value>>

\* use_cache unset while the slot holds the map of older data: the slot is
\* overwritten with the new map
C27_Witness ==
    /\ FullRequest
    /\ ~result.use_cache
    /\ result.raised = ""
    /\ result.slot_before # <<>>
    /\ result.slot_before[1] # result.value
    /\ cache.slot = <<result.value>>

(***************************************************************************)
(* C28: while several get_unified_alerts(None, use_cache = TRUE) requests  *)
(* run at once on an initialized facade, the cache slot is at every point  *)
(* empty or holds a complete map of one full unification, never a map      *)
(* under construction, and every request that returns, returns such a      *)
(* complete map.  The test of the slot and its filling are not guarded: a  *)
(* second request may run the unifier although the first one is about to   *)
(* fill the slot.                                                          *)
(***************************************************************************)
CompleteMap == service_get_unified_alerts(NoIds).value

C28_SlotNeverPartial ==
    result.op = "concurrent" =>
        /\ cache.slot = <<>> \/ cache.slot = <<CompleteMap>>
        /\ \A p \in Requests :
              LET req == result.requests[p] IN
              /\ (req.pc = "done" /\ req.raised = "") =>
                    req.returned = CompleteMap
              /\ req.raised # "" => ~app_utils.analyzers

\* the duplicate recomputation: every request ran the unifier and returned,
\* and the map under construction differed from the complete one on the way
C28_Witness ==
    /\ result.op = "concurrent"
    /\ \A p \in Requests :
          /\ result.requests[p].pc = "done"
          /\ result.requests[p].computed
          /\ result.requests[p].returned = CompleteMap
    /\ cache.slot = <<CompleteMap>>
    /\ unify_step(1, <<>>) # CompleteMap

(***************************************************************************)
(* C30: under the default thresholds the classifier of the UI layer and    *)
(* the classifier of the service give the same category to every           *)
(* percentile that is not missing, except exactly at 72 and 93.5, where    *)
(* the UI layer answers N and G and the service G and SG; at 6.5 and 28    *)
(* both answer B and N.                                                    *)
(***************************************************************************)
DefaultThresholds ==
    config.percentile_categories = DEFAULT_PERCENTILE_CATEGORIES

C30_ClassifiersAgreeOffBoundary ==
    (/\ result.op = "ui_map_percentile_to_category"
     /\ DefaultThresholds
     /\ ~IsMissing(result.arg)) =>
        LET ui == result.value
            service == map_percentile_to_category(result.arg)
        IN /\ ui = ui_map_percentile_to_category(result.arg)
           /\ IF result.arg = Num(144) THEN ui = "N" /\ service = "G"
              ELSE IF result.arg = Num(187) THEN ui = "G" /\ service = "SG"
              ELSE ui = service
           /\ result.arg = Num(13) => ui = "B" /\ service = "B"
           /\ result.arg = Num(56) => ui = "N" /\ service = "N"

C30_Witness ==
    /\ result.op = "ui_map_percentile_to_category"
    /\ DefaultThresholds
    /\ result.arg = Num(144)
    /\ result.value = "N"
    /\ map_percentile_to_category(result.arg) = "G"

(***************************************************************************)
(* C29: in every map AlertService.get_unified_alerts returns, the          *)
(* alert_category of each record agrees with its overall_percentile: it is *)
(* NS exactly when the overall_percentile is None or NaN, and otherwise it *)
(* is what map_overall_percentile_to_category gives for that percentile;   *)
(* and each record has a threshold record whose threshold_alert is T or N. *)
(***************************************************************************)
C29_CategoryMatchesOverall ==
    Returned("get_unified_alerts") =>
        \A s \in DOMAIN result.value :
            LET alert == result.value[s] IN
            /\ {"alert_category", "overall_percentile", "threshold"}
                  \subseteq alert.keys
            /\ alert.alert_category = "NS"
                  <=> IsMissing(alert.overall_percentile)
            /\ ~IsMissing(alert.overall_percentile) =>
                  alert.alert_category =
                      map_overall_percentile_to_category(
                          alert.overall_percentile)
            /\ alert.threshold.threshold_alert \in {"T", "N"}

\* a returned map holding a scored record with threshold alert T next to an
\* unscored one
C29_Witness ==
    /\ Returned("get_unified_alerts")
    /\ \E s \in DOMAIN result.value :
          /\ ~IsMissing(result.value[s].overall_percentile)
          /\ result.value[s].alert_category \in CategoryKeys
          /\ result.value[s].threshold.threshold_alert = "T"
    /\ \E s \in DOMAIN result.value :
          /\ IsMissing(result.value[s].overall_percentile)
          /\ result.value[s].alert_category = "NS"
          /\ "quantile" \in result.value[s].keys

=============================================================================
